---- MODULE Spec2Model ----
(***************************************************************************)
(* RISC-V Control and Status Registers (target/riscv/csr.c), system build  *)
(* (CONFIG_USER_ONLY undefined).                                           *)
(*                                                                         *)
(* A target_ulong is modelled as the set of the bit positions that are 1:  *)
(* a & b is a \cap b, a | b is a \cup b, a & ~b is a \ b, a ^ b is the     *)
(* symmetric difference. TARGET_LONG_BITS is 32 or 64, so words do not fit *)
(* the model checker's integers; bit sets keep every bit of both widths.   *)
(***************************************************************************)
EXTENDS Integers, FiniteSets, Sequences, TLC

VARIABLES
    env,      \* CPURISCVState of the hart
    target,   \* TARGET_LONG_BITS of the build: 32 (TARGET_RISCV32) or 64
    call,     \* the last riscv_csrrw call: its arguments, results and effects
    family,   \* the group of CSRs the running program accesses
    calls,    \* CSR instructions executed so far by a probing program
    sync      \* the iothread mutex, the hart's interrupt line, and where the
              \* hart thread and a device thread are in their updates of mip

vars == <<env, target, call, family, calls, sync>>

(***************************************************************************)
(* Words                                                                   *)
(***************************************************************************)
TARGET_LONG_BITS == target

Ones == 0 .. (TARGET_LONG_BITS - 1)

Ones32 == 0 .. 31

Xor(a, b) == (a \ b) \cup (b \ a)

RECURSIVE Pow2(_)
Pow2(n) == IF n = 0 THEN 1 ELSE 2 * Pow2(n - 1)

\* The number held by the bits lo .. lo+width-1 of a word (a field of at most
\* 5 bits here).
RECURSIVE FieldSum(_, _, _)
FieldSum(val, lo, width) ==
    IF width = 0 THEN 0
    ELSE FieldSum(val, lo, width - 1)
         + (IF (lo + width - 1) \in val THEN Pow2(width - 1) ELSE 0)

\* get_field(reg, mask) for a mask of contiguous bits.
get_field(reg, mask) ==
    IF mask = {} THEN 0
    ELSE LET lo == CHOOSE b \in mask : \A c \in mask : b <= c
         IN  FieldSum(reg, lo, Cardinality(mask))

\* set_field(reg, mask, val) for a one-bit mask and val in {0, 1}.
set_field(reg, mask, val) == IF val = 1 THEN reg \cup mask ELSE reg \ mask

ShiftLeft(val, n) == { b + n : b \in val } \cap Ones

ShiftRight(val, n) == { b - n : b \in { c \in val : c >= n } }

(***************************************************************************)
(* Constants of cpu_bits.h and cpu.h                                       *)
(***************************************************************************)
PRV_U == 0
PRV_S == 1
PRV_H == 2
PRV_M == 3

\* PRIV_VERSION_1_09_1 is 0x00010901 and PRIV_VERSION_1_10_0 is 0x00011000.
PRIV_VERSION_1_09_1 == 67841
PRIV_VERSION_1_10_0 == 69632

\* RV(x) is 1 << (x - 'A').
RVS == {18}
RVU == {20}
RVI == {8}
RVM == {12}
RVA == {0}
RVF == {5}
RVD == {3}
RVC == {2}

MSTATUS_UIE == {0}
MSTATUS_SIE == {1}
MSTATUS_MIE == {3}
MSTATUS_UPIE == {4}
MSTATUS_SPIE == {5}
MSTATUS_MPIE == {7}
MSTATUS_SPP == {8}
MSTATUS_MPP == {11, 12}
MSTATUS_FS == {13, 14}
MSTATUS_XS == {15, 16}
MSTATUS_MPRV == {17}
MSTATUS_SUM == {18}
MSTATUS_MXR == {19}
MSTATUS_VM == 24 .. 28
MSTATUS_SD == {TARGET_LONG_BITS - 1}

SSTATUS_UIE == {0}
SSTATUS_SIE == {1}
SSTATUS_UPIE == {4}
SSTATUS_SPIE == {5}
SSTATUS_SPP == {8}
SSTATUS_FS == {13, 14}
SSTATUS_XS == {15, 16}
SSTATUS_SUM == {18}
SSTATUS_MXR == {19}
SSTATUS_SD == {TARGET_LONG_BITS - 1}

MIP_SSIP == {1}
MIP_MSIP == {3}
MIP_STIP == {5}
MIP_MTIP == {7}
MIP_SEIP == {9}

SATP_MODE == IF TARGET_LONG_BITS = 32 THEN {31} ELSE 60 .. 63
SATP_ASID == IF TARGET_LONG_BITS = 32 THEN 22 .. 30 ELSE 44 .. 59
SATP_PPN == IF TARGET_LONG_BITS = 32 THEN 0 .. 21 ELSE 0 .. 43

FSR_RD_SHIFT == 5
FSR_RD == {5, 6, 7}
FSR_AEXC_SHIFT == 0
FSR_AEXC == {0, 1, 2, 3, 4}

VM_1_09_MBARE == 0
VM_1_09_SV32 == 8
VM_1_09_SV39 == 9
VM_1_09_SV48 == 10
VM_1_10_MBARE == 0
VM_1_10_SV32 == 1
VM_1_10_SV39 == 8
VM_1_10_SV48 == 9
VM_1_10_SV57 == 10

PGSHIFT == 12

TARGET_PHYS_ADDR_SPACE_BITS == IF TARGET_LONG_BITS = 64 THEN 50 ELSE 34

CSR_FFLAGS == 1
CSR_FRM == 2
CSR_FCSR == 3
CSR_CYCLE == 3072
CSR_INSTRET == 3074
CSR_HPMCOUNTER3 == 3075
CSR_HPMCOUNTER31 == 3103
CSR_CYCLEH == 3200
CSR_INSTRETH == 3202
CSR_HPMCOUNTER3H == 3203
CSR_HPMCOUNTER31H == 3231
CSR_MCYCLE == 2816
CSR_MINSTRET == 2818
CSR_MHPMCOUNTER3 == 2819
CSR_MHPMCOUNTER31 == 2847
CSR_MCYCLEH == 2944
CSR_MINSTRETH == 2946
CSR_MHPMCOUNTER3H == 2947
CSR_MHPMCOUNTER31H == 2975
CSR_MVENDORID == 3857
CSR_MARCHID == 3858
CSR_MIMPID == 3859
CSR_MHARTID == 3860
CSR_MSTATUS == 768
CSR_MISA == 769
CSR_MEDELEG == 770
CSR_MIDELEG == 771
CSR_MIE == 772
CSR_MTVEC == 773
CSR_MCOUNTEREN == 774
CSR_MUCOUNTEREN == 800
CSR_MSCOUNTEREN == 801
CSR_MHPMEVENT3 == 803
CSR_MHPMEVENT31 == 831
CSR_MSCRATCH == 832
CSR_MEPC == 833
CSR_MCAUSE == 834
CSR_MBADADDR == 835
CSR_MIP == 836
CSR_SSTATUS == 256
CSR_SIE == 260
CSR_STVEC == 261
CSR_SCOUNTEREN == 262
CSR_SSCRATCH == 320
CSR_SEPC == 321
CSR_SCAUSE == 322
CSR_SBADADDR == 323
CSR_SIP == 324
CSR_SATP == 384
CSR_PMPCFG0 == 928
CSR_PMPADDR0 == 944
CSR_PMPADDR9 == 953
CSR_PMPADDR15 == 959

MAX_RISCV_PMPS == 16

(***************************************************************************)
(* Results of accessors. A read returns a status and a value; a write      *)
(* returns a status, the hart state it leaves and the collaborator calls   *)
(* and stores it made, in order.                                           *)
(***************************************************************************)
RdOk(v) == [ret |-> 0, val |-> v]

RdErr == [ret |-> -1, val |-> {}]

WrOk(e, ev) == [ret |-> 0, env |-> e, ev |-> ev]

WrErr(e) == [ret |-> -1, env |-> e, ev |-> <<>>]

riscv_has_ext(e, ext) == (e.misa \cap ext) # {}

riscv_feature(e, feature) == feature \in e.features

\* cpu_riscv_get_fflags / cpu_riscv_set_fflags: the accrued exception flags
\* kept for the floating-point unit.
cpu_riscv_get_fflags(e) == e.fflags

cpu_riscv_set_fflags(e, val) == [e EXCEPT !.fflags = val]

(***************************************************************************)
(* User Floating-Point CSRs                                                *)
(***************************************************************************)
\* read_fflags without the check of mstatus.FS.
read_fflags_unchecked(e, csrno) == RdOk(cpu_riscv_get_fflags(e))

read_fflags(e, csrno) ==
    IF e.mstatus \cap MSTATUS_FS = {} THEN RdErr
    ELSE RdOk(cpu_riscv_get_fflags(e))

write_fflags(e, csrno, val) ==
    IF e.mstatus \cap MSTATUS_FS = {} THEN WrErr(e)
    ELSE LET e1 == [e EXCEPT !.mstatus = e.mstatus \cup MSTATUS_FS]
         IN  WrOk(cpu_riscv_set_fflags(e1,
                     val \cap ShiftRight(FSR_AEXC, FSR_AEXC_SHIFT)), <<>>)

read_frm(e, csrno) ==
    IF e.mstatus \cap MSTATUS_FS = {} THEN RdErr
    ELSE RdOk(e.frm)

write_frm(e, csrno, val) ==
    IF e.mstatus \cap MSTATUS_FS = {} THEN WrErr(e)
    ELSE WrOk([e EXCEPT !.mstatus = e.mstatus \cup MSTATUS_FS,
                        !.frm = val \cap ShiftRight(FSR_RD, FSR_RD_SHIFT)],
              <<>>)

read_fcsr(e, csrno) ==
    IF e.mstatus \cap MSTATUS_FS = {} THEN RdErr
    ELSE RdOk(ShiftLeft(cpu_riscv_get_fflags(e), FSR_AEXC_SHIFT)
              \cup ShiftLeft(e.frm, FSR_RD_SHIFT))

\* write_fcsr that stores the rounding-mode field where it lies in fcsr.
write_fcsr_unshifted(e, csrno, val) ==
    IF e.mstatus \cap MSTATUS_FS = {} THEN WrErr(e)
    ELSE LET e1 == [e EXCEPT !.mstatus = e.mstatus \cup MSTATUS_FS,
                             !.frm = val \cap FSR_RD]
         IN  WrOk(cpu_riscv_set_fflags(e1,
                     ShiftRight(val \cap FSR_AEXC, FSR_AEXC_SHIFT)), <<>>)

write_fcsr(e, csrno, val) ==
    IF e.mstatus \cap MSTATUS_FS = {} THEN WrErr(e)
    ELSE LET e1 == [e EXCEPT !.mstatus = e.mstatus \cup MSTATUS_FS,
                             !.frm = ShiftRight(val \cap FSR_RD, FSR_RD_SHIFT)]
         IN  WrOk(cpu_riscv_set_fflags(e1,
                     ShiftRight(val \cap FSR_AEXC, FSR_AEXC_SHIFT)), <<>>)

(***************************************************************************)
(* User Timers and Counters                                                *)
(***************************************************************************)
\* (ctr_en >> (csrno & 31)) & 1; -1U is an unsigned int with all 32 bits set.
counter_enabled(e, csrno) ==
    LET ctr_en == IF e.priv = PRV_U THEN e.mucounteren
                  ELSE IF e.priv = PRV_S THEN e.mscounteren
                  ELSE Ones32
    IN  IF (csrno % 32) \in ctr_en THEN 1 ELSE 0

read_zero_counter(e, csrno) ==
    IF counter_enabled(e, csrno) = 0 THEN RdErr ELSE RdOk({})

\* ticks is what cpu_get_icount() or cpu_get_host_ticks() returns (64 bits),
\* stored into a target_ulong.
read_instret(e, csrno, ticks) ==
    IF counter_enabled(e, csrno) = 0 THEN RdErr ELSE RdOk(ticks \cap Ones)

read_instreth(e, csrno, ticks) ==
    IF counter_enabled(e, csrno) = 0 THEN RdErr
    ELSE RdOk(ShiftRight(ticks, 32) \cap Ones)

(***************************************************************************)
(* Machine constants                                                       *)
(***************************************************************************)
delegable_ints == MIP_SSIP \cup MIP_STIP \cup MIP_SEIP

all_ints == MIP_SSIP \cup MIP_STIP \cup MIP_SEIP \cup MIP_MSIP \cup MIP_MTIP

\* RISCV_EXCP_INST_ADDR_MIS (0) .. RISCV_EXCP_STORE_AMO_ACCESS_FAULT (7),
\* the U, S, H and M ecalls (8 .. 11), and the instruction, load and store
\* page faults (12, 13, 15).
delegable_excps == (0 .. 13) \cup {15}

\* The 1.9.1 mask with the MXR bit of 1.10 in it.
sstatus_v1_9_mask_mxr ==
    SSTATUS_SIE \cup SSTATUS_SPIE \cup SSTATUS_UIE \cup SSTATUS_UPIE
    \cup SSTATUS_SPP \cup SSTATUS_FS \cup SSTATUS_XS \cup SSTATUS_SUM
    \cup SSTATUS_MXR \cup SSTATUS_SD

sstatus_v1_9_mask ==
    SSTATUS_SIE \cup SSTATUS_SPIE \cup SSTATUS_UIE \cup SSTATUS_UPIE
    \cup SSTATUS_SPP \cup SSTATUS_FS \cup SSTATUS_XS \cup SSTATUS_SUM
    \cup SSTATUS_SD

sstatus_v1_10_mask ==
    SSTATUS_SIE \cup SSTATUS_SPIE \cup SSTATUS_UIE \cup SSTATUS_UPIE
    \cup SSTATUS_SPP \cup SSTATUS_FS \cup SSTATUS_XS \cup SSTATUS_SUM
    \cup SSTATUS_MXR \cup SSTATUS_SD

\* The indices of valid_vm_1_09[16] and valid_vm_1_10[16] that hold 1.
valid_vm_1_09 ==
    IF TARGET_LONG_BITS = 32 THEN {VM_1_09_MBARE, VM_1_09_SV32}
    ELSE {VM_1_09_MBARE, VM_1_09_SV39, VM_1_09_SV48}

valid_vm_1_10 ==
    IF TARGET_LONG_BITS = 32 THEN {VM_1_10_MBARE, VM_1_10_SV32}
    ELSE {VM_1_10_MBARE, VM_1_10_SV39, VM_1_10_SV48, VM_1_10_SV57}

(***************************************************************************)
(* Machine Information Registers and Machine Trap Setup                    *)
(***************************************************************************)
read_zero(e, csrno) == RdOk({})

read_mhartid(e, csrno) == RdOk(e.mhartid)

read_mstatus(e, csrno) == RdOk(e.mstatus)

\* validate_vm accepting every mode.
validate_vm_any(e, vm) == TRUE

validate_vm(e, vm) ==
    IF e.priv_ver >= PRIV_VERSION_1_10_0
    THEN (vm % 16) \in valid_vm_1_10
    ELSE (vm % 16) \in valid_vm_1_09

\* write_mstatus that keeps MPP in the mask whatever mode it selects.
write_mstatus_any_mpp(e, csrno, val) ==
    LET mstatus == e.mstatus
        mpp == get_field(val, MSTATUS_MPP)
        old109 == e.priv_ver <= PRIV_VERSION_1_09_1
        new110 == e.priv_ver >= PRIV_VERSION_1_10_0
        flush109 ==
            IF old109 /\ (Xor(val, mstatus)
                          \cap (MSTATUS_MXR \cup MSTATUS_MPP \cup MSTATUS_MPRV
                                \cup MSTATUS_SUM \cup MSTATUS_VM)) # {}
            THEN <<"tlb_flush">> ELSE <<>>
        mask109 ==
            MSTATUS_SIE \cup MSTATUS_SPIE \cup MSTATUS_MIE \cup MSTATUS_MPIE
            \cup MSTATUS_SPP \cup MSTATUS_FS \cup MSTATUS_MPRV \cup MSTATUS_SUM
            \cup MSTATUS_MPP \cup MSTATUS_MXR
            \cup (IF validate_vm(e, get_field(val, MSTATUS_VM))
                  THEN MSTATUS_VM ELSE {})
        flush110 ==
            IF new110 /\ (Xor(val, mstatus)
                          \cap (MSTATUS_MXR \cup MSTATUS_MPP \cup MSTATUS_MPRV
                                \cup MSTATUS_SUM)) # {}
            THEN <<"tlb_flush">> ELSE <<>>
        mask110 ==
            MSTATUS_SIE \cup MSTATUS_SPIE \cup MSTATUS_MIE \cup MSTATUS_MPIE
            \cup MSTATUS_SPP \cup MSTATUS_FS \cup MSTATUS_MPRV \cup MSTATUS_SUM
            \cup MSTATUS_MPP \cup MSTATUS_MXR
        mask0 == IF new110 THEN mask110 ELSE IF old109 THEN mask109 ELSE {}
        mask == mask0
        merged == (mstatus \ mask) \cup (val \cap mask)
        \* FP is always dirty or off
        fs == IF merged \cap MSTATUS_FS # {} THEN merged \cup MSTATUS_FS
              ELSE merged
        dirty == IF (fs \cap MSTATUS_FS) = MSTATUS_FS
                    \/ (fs \cap MSTATUS_XS) = MSTATUS_XS
                 THEN 1 ELSE 0
    IN  WrOk([e EXCEPT !.mstatus = set_field(fs, MSTATUS_SD, dirty)],
             flush109 \o flush110 \o <<"store_mstatus">>)

write_mstatus(e, csrno, val) ==
    LET mstatus == e.mstatus
        mpp == get_field(val, MSTATUS_MPP)
        old109 == e.priv_ver <= PRIV_VERSION_1_09_1
        new110 == e.priv_ver >= PRIV_VERSION_1_10_0
        flush109 ==
            IF old109 /\ (Xor(val, mstatus)
                          \cap (MSTATUS_MXR \cup MSTATUS_MPP \cup MSTATUS_MPRV
                                \cup MSTATUS_SUM \cup MSTATUS_VM)) # {}
            THEN <<"tlb_flush">> ELSE <<>>
        mask109 ==
            MSTATUS_SIE \cup MSTATUS_SPIE \cup MSTATUS_MIE \cup MSTATUS_MPIE
            \cup MSTATUS_SPP \cup MSTATUS_FS \cup MSTATUS_MPRV \cup MSTATUS_SUM
            \cup MSTATUS_MPP \cup MSTATUS_MXR
            \cup (IF validate_vm(e, get_field(val, MSTATUS_VM))
                  THEN MSTATUS_VM ELSE {})
        flush110 ==
            IF new110 /\ (Xor(val, mstatus)
                          \cap (MSTATUS_MXR \cup MSTATUS_MPP \cup MSTATUS_MPRV
                                \cup MSTATUS_SUM)) # {}
            THEN <<"tlb_flush">> ELSE <<>>
        mask110 ==
            MSTATUS_SIE \cup MSTATUS_SPIE \cup MSTATUS_MIE \cup MSTATUS_MPIE
            \cup MSTATUS_SPP \cup MSTATUS_FS \cup MSTATUS_MPRV \cup MSTATUS_SUM
            \cup MSTATUS_MPP \cup MSTATUS_MXR
        mask0 == IF new110 THEN mask110 ELSE IF old109 THEN mask109 ELSE {}
        \* silently discard mstatus.mpp writes for unsupported modes
        mask == IF mpp = PRV_H
                   \/ (~riscv_has_ext(e, RVS) /\ mpp = PRV_S)
                   \/ (~riscv_has_ext(e, RVU) /\ mpp = PRV_U)
                THEN mask0 \ MSTATUS_MPP ELSE mask0
        merged == (mstatus \ mask) \cup (val \cap mask)
        \* FP is always dirty or off
        fs == IF merged \cap MSTATUS_FS # {} THEN merged \cup MSTATUS_FS
              ELSE merged
        dirty == IF (fs \cap MSTATUS_FS) = MSTATUS_FS
                    \/ (fs \cap MSTATUS_XS) = MSTATUS_XS
                 THEN 1 ELSE 0
    IN  WrOk([e EXCEPT !.mstatus = set_field(fs, MSTATUS_SD, dirty)],
             flush109 \o flush110 \o <<"store_mstatus">>)

read_misa(e, csrno) == RdOk(e.misa)

read_medeleg(e, csrno) == RdOk(e.medeleg)

write_medeleg(e, csrno, val) ==
    WrOk([e EXCEPT !.medeleg = (e.medeleg \ delegable_excps)
                               \cup (val \cap delegable_excps)], <<>>)

read_mideleg(e, csrno) == RdOk(e.mideleg)

\* write_mideleg that stores the value as it came.
write_mideleg_unmasked(e, csrno, val) == WrOk([e EXCEPT !.mideleg = val], <<>>)

write_mideleg(e, csrno, val) ==
    WrOk([e EXCEPT !.mideleg = (e.mideleg \ delegable_ints)
                               \cup (val \cap delegable_ints)], <<>>)

read_mie(e, csrno) == RdOk(e.mie)

\* write_mie with the mask of mideleg in place of the mask of all interrupts.
write_mie_delegable(e, csrno, val) ==
    WrOk([e EXCEPT !.mie = (e.mie \ delegable_ints)
                           \cup (val \cap delegable_ints)], <<>>)

write_mie(e, csrno, val) ==
    WrOk([e EXCEPT !.mie = (e.mie \ all_ints) \cup (val \cap all_ints)], <<>>)

read_mtvec(e, csrno) == RdOk(e.mtvec)

\* write_mtvec that stores every value with its low two bits masked.
write_mtvec_masking(e, csrno, val) ==
    WrOk([e EXCEPT !.mtvec = ShiftLeft(ShiftRight(val, 2), 2)], <<>>)

\* we do not support vectored traps for asynchronous interrupts
write_mtvec(e, csrno, val) ==
    IF val \cap {0, 1} = {}
    THEN WrOk([e EXCEPT !.mtvec = ShiftLeft(ShiftRight(val, 2), 2)], <<>>)
    ELSE WrOk(e, <<>>)

read_mcounteren(e, csrno) ==
    IF e.priv_ver < PRIV_VERSION_1_10_0 THEN RdErr ELSE RdOk(e.mcounteren)

write_mcounteren(e, csrno, val) ==
    IF e.priv_ver < PRIV_VERSION_1_10_0 THEN WrErr(e)
    ELSE WrOk([e EXCEPT !.mcounteren = val], <<>>)

read_mscounteren(e, csrno) ==
    IF e.priv_ver > PRIV_VERSION_1_09_1 THEN RdErr ELSE RdOk(e.mcounteren)

write_mscounteren(e, csrno, val) ==
    IF e.priv_ver > PRIV_VERSION_1_09_1 THEN WrErr(e)
    ELSE WrOk([e EXCEPT !.mcounteren = val], <<>>)

\* read_mucounteren without the check of the privileged architecture version.
read_mucounteren_any_version(e, csrno) == RdOk(e.scounteren)

read_mucounteren(e, csrno) ==
    IF e.priv_ver > PRIV_VERSION_1_09_1 THEN RdErr ELSE RdOk(e.scounteren)

write_mucounteren(e, csrno, val) ==
    IF e.priv_ver > PRIV_VERSION_1_09_1 THEN WrErr(e)
    ELSE WrOk([e EXCEPT !.scounteren = val], <<>>)

(***************************************************************************)
(* Machine Trap Handling                                                   *)
(***************************************************************************)
read_mscratch(e, csrno) == RdOk(e.mscratch)

write_mscratch(e, csrno, val) == WrOk([e EXCEPT !.mscratch = val], <<>>)

read_mepc(e, csrno) == RdOk(e.mepc)

write_mepc(e, csrno, val) == WrOk([e EXCEPT !.mepc = val], <<>>)

read_mcause(e, csrno) == RdOk(e.mcause)

write_mcause(e, csrno, val) == WrOk([e EXCEPT !.mcause = val], <<>>)

read_mbadaddr(e, csrno) == RdOk(e.mbadaddr)

write_mbadaddr(e, csrno, val) == WrOk([e EXCEPT !.mbadaddr = val], <<>>)

\* riscv_set_local_interrupt(cpu, mask, value): the interrupt controller's
\* atomic update of the pending bitmap; it returns the prior bitmap.
riscv_set_local_interrupt(e, mask, value) ==
    [old |-> e.mip,
     env |-> [e EXCEPT !.mip = (e.mip \ mask) \cup (value \cap mask)]]

\* rmw_mip with SEIP alone removed from the mask.
rmw_mip_all_but_seip(e, csrno, new_value, write_mask) ==
    LET mask == write_mask \ MIP_SEIP
        r == riscv_set_local_interrupt(e, mask, new_value \cap mask)
    IN  [ret |-> 0, val |-> r.old \cap Ones32, env |-> r.env,
         ev |-> <<"qemu_mutex_lock_iothread", "riscv_set_local_interrupt",
                  "qemu_mutex_unlock_iothread">>]

\* rmw_mip that calls riscv_set_local_interrupt without the iothread mutex.
rmw_mip_unlocked(e, csrno, new_value, write_mask) ==
    LET mask == (write_mask \cap delegable_ints) \ MIP_SEIP
    IN  IF mask # {}
        THEN LET r == riscv_set_local_interrupt(e, mask, new_value \cap mask)
             IN  [ret |-> 0, val |-> r.old \cap Ones32, env |-> r.env,
                  ev |-> <<"riscv_set_local_interrupt">>]
        ELSE [ret |-> 0, val |-> e.mip \cap Ones32, env |-> e,
              ev |-> <<"atomic_read">>]

\* rmw_mip that leaves SEIP in the mask.
rmw_mip_with_seip(e, csrno, new_value, write_mask) ==
    LET mask == write_mask \cap delegable_ints
    IN  IF mask # {}
        THEN LET r == riscv_set_local_interrupt(e, mask, new_value \cap mask)
             IN  [ret |-> 0, val |-> r.old \cap Ones32, env |-> r.env,
                  ev |-> <<"qemu_mutex_lock_iothread",
                           "riscv_set_local_interrupt",
                           "qemu_mutex_unlock_iothread">>]
        ELSE [ret |-> 0, val |-> e.mip \cap Ones32, env |-> e,
              ev |-> <<"atomic_read">>]

\* The result of a read-modify-write accessor: status, *ret_value, the hart
\* state it leaves and the collaborator calls it made. old_mip is a uint32_t.
rmw_mip(e, csrno, new_value, write_mask) ==
    LET mask == (write_mask \cap delegable_ints) \ MIP_SEIP
    IN  IF mask # {}
        THEN LET r == riscv_set_local_interrupt(e, mask, new_value \cap mask)
             IN  [ret |-> 0, val |-> r.old \cap Ones32, env |-> r.env,
                  ev |-> <<"qemu_mutex_lock_iothread",
                           "riscv_set_local_interrupt",
                           "qemu_mutex_unlock_iothread">>]
        ELSE [ret |-> 0, val |-> e.mip \cap Ones32, env |-> e,
              ev |-> <<"atomic_read">>]

(***************************************************************************)
(* Supervisor Trap Setup                                                   *)
(***************************************************************************)
read_sstatus(e, csrno) ==
    LET mask == IF e.priv_ver >= PRIV_VERSION_1_10_0
                THEN sstatus_v1_10_mask ELSE sstatus_v1_9_mask
    IN  RdOk(e.mstatus \cap mask)

\* write_sstatus that stores into mstatus itself, past mstatus's writer.
write_sstatus_direct(e, csrno, val) ==
    LET mask == IF e.priv_ver >= PRIV_VERSION_1_10_0
                THEN sstatus_v1_10_mask ELSE sstatus_v1_9_mask
    IN  WrOk([e EXCEPT !.mstatus = (e.mstatus \ mask) \cup (val \cap mask)],
             <<"store_mstatus">>)

write_sstatus(e, csrno, val) ==
    LET mask == IF e.priv_ver >= PRIV_VERSION_1_10_0
                THEN sstatus_v1_10_mask ELSE sstatus_v1_9_mask
        newval == (e.mstatus \ mask) \cup (val \cap mask)
    IN  write_mstatus(e, CSR_MSTATUS, newval)

read_sie(e, csrno) == RdOk(e.mie \cap e.mideleg)

\* write_sie that hands mie's writer the delegated bits alone.
write_sie_delegated_only(e, csrno, val) ==
    write_mie(e, CSR_MIE, val \cap e.mideleg)

write_sie(e, csrno, val) ==
    LET newval == (e.mie \ e.mideleg) \cup (val \cap e.mideleg)
    IN  write_mie(e, CSR_MIE, newval)

read_stvec(e, csrno) == RdOk(e.stvec)

\* we do not support vectored traps for asynchronous interrupts
write_stvec(e, csrno, val) ==
    IF val \cap {0, 1} = {}
    THEN WrOk([e EXCEPT !.stvec = ShiftLeft(ShiftRight(val, 2), 2)], <<>>)
    ELSE WrOk(e, <<>>)

read_scounteren(e, csrno) ==
    IF e.priv_ver < PRIV_VERSION_1_10_0 THEN RdErr ELSE RdOk(e.scounteren)

write_scounteren(e, csrno, val) ==
    IF e.priv_ver < PRIV_VERSION_1_10_0 THEN WrErr(e)
    ELSE WrOk([e EXCEPT !.scounteren = val], <<>>)

(***************************************************************************)
(* Supervisor Trap Handling                                                *)
(***************************************************************************)
read_sscratch(e, csrno) == RdOk(e.sscratch)

write_sscratch(e, csrno, val) == WrOk([e EXCEPT !.sscratch = val], <<>>)

read_sepc(e, csrno) == RdOk(e.sepc)

write_sepc(e, csrno, val) == WrOk([e EXCEPT !.sepc = val], <<>>)

read_scause(e, csrno) == RdOk(e.scause)

write_scause(e, csrno, val) == WrOk([e EXCEPT !.scause = val], <<>>)

read_sbadaddr(e, csrno) == RdOk(e.sbadaddr)

write_sbadaddr(e, csrno, val) == WrOk([e EXCEPT !.sbadaddr = val], <<>>)

\* rmw_sip that hands rmw_mip the write mask as it came.
rmw_sip_undelegated(e, csrno, new_value, write_mask) ==
    rmw_mip(e, CSR_MSTATUS, new_value, write_mask)

rmw_sip(e, csrno, new_value, write_mask) ==
    rmw_mip(e, CSR_MSTATUS, new_value, write_mask \cap e.mideleg)

(***************************************************************************)
(* Supervisor Protection and Translation                                   *)
(***************************************************************************)
RISCV_FEATURE_MMU == "RISCV_FEATURE_MMU"

RISCV_FEATURE_PMP == "RISCV_FEATURE_PMP"

read_satp(e, csrno) ==
    IF ~riscv_feature(e, RISCV_FEATURE_MMU) THEN RdOk({})
    ELSE IF e.priv_ver >= PRIV_VERSION_1_10_0 THEN RdOk(e.satp)
    ELSE RdOk(e.sptbr)

\* write_satp refusing a mode the hart does not support, after the flush.
write_satp_refuse(e, csrno, val) ==
    IF e.priv_ver >= PRIV_VERSION_1_10_0
       /\ riscv_feature(e, RISCV_FEATURE_MMU)
       /\ ~validate_vm(e, get_field(val, SATP_MODE))
    THEN [ret |-> -1, env |-> e, ev |-> <<"tlb_flush">>]
    ELSE WrOk([e EXCEPT !.satp = val], <<"tlb_flush", "store_satp">>)

\* write_satp under 1.10 that stores the new root and then flushes.
write_satp_store_first(e, csrno, val) ==
    IF e.priv_ver >= PRIV_VERSION_1_10_0
       /\ riscv_feature(e, RISCV_FEATURE_MMU)
       /\ validate_vm(e, get_field(val, SATP_MODE))
       /\ val # e.satp
    THEN WrOk([e EXCEPT !.satp = val], <<"store_satp", "tlb_flush">>)
    ELSE WrOk(e, <<>>)

\* write_satp storing the whole value in sptbr.
write_satp_untruncated(e, csrno, val) ==
    IF ~riscv_feature(e, RISCV_FEATURE_MMU) THEN WrOk(e, <<>>)
    ELSE
      LET do109 == e.priv_ver <= PRIV_VERSION_1_09_1
                   /\ Xor(val, e.sptbr) # {}
          e1 == IF do109
                THEN [e EXCEPT !.sptbr = val]
                ELSE e
          ev1 == IF do109 THEN <<"tlb_flush", "store_sptbr">> ELSE <<>>
          do110 == e1.priv_ver >= PRIV_VERSION_1_10_0
                   /\ validate_vm(e1, get_field(val, SATP_MODE))
                   /\ (Xor(val, e1.satp)
                       \cap (SATP_MODE \cup SATP_ASID \cup SATP_PPN)) # {}
          e2 == IF do110 THEN [e1 EXCEPT !.satp = val] ELSE e1
          ev2 == IF do110 THEN <<"tlb_flush", "store_satp">> ELSE <<>>
      IN  WrOk(e2, ev1 \o ev2)

write_satp(e, csrno, val) ==
    IF ~riscv_feature(e, RISCV_FEATURE_MMU) THEN WrOk(e, <<>>)
    ELSE
      LET do109 == e.priv_ver <= PRIV_VERSION_1_09_1
                   /\ Xor(val, e.sptbr) # {}
          e1 == IF do109
                THEN [e EXCEPT !.sptbr =
                        val \cap (0 .. (TARGET_PHYS_ADDR_SPACE_BITS
                                        - PGSHIFT - 1))]
                ELSE e
          ev1 == IF do109 THEN <<"tlb_flush", "store_sptbr">> ELSE <<>>
          do110 == e1.priv_ver >= PRIV_VERSION_1_10_0
                   /\ validate_vm(e1, get_field(val, SATP_MODE))
                   /\ (Xor(val, e1.satp)
                       \cap (SATP_MODE \cup SATP_ASID \cup SATP_PPN)) # {}
          e2 == IF do110 THEN [e1 EXCEPT !.satp = val] ELSE e1
          ev2 == IF do110 THEN <<"tlb_flush", "store_satp">> ELSE <<>>
      IN  WrOk(e2, ev1 \o ev2)

(***************************************************************************)
(* Physical Memory Protection: the CSR face of the PMP module.  The module *)
(* keeps the configuration and address registers by index and ignores an   *)
(* index it does not implement.                                            *)
(***************************************************************************)
\* pmp_state holds the registers that are not zero, as
\* <<"cfg" or "addr", index, value>>.
PmpGet(e, kind, index) ==
    IF \E r \in e.pmp_state : r[1] = kind /\ r[2] = index
    THEN (CHOOSE r \in e.pmp_state : r[1] = kind /\ r[2] = index)[3]
    ELSE {}

PmpSet(e, kind, index, val) ==
    [e EXCEPT !.pmp_state =
        { r \in e.pmp_state : ~(r[1] = kind /\ r[2] = index) }
        \cup (IF val = {} THEN {} ELSE {<<kind, index, val>>})]

pmpcfg_csr_read(e, reg_index) ==
    IF reg_index \in 0 .. 3 THEN PmpGet(e, "cfg", reg_index) ELSE {}

pmpcfg_csr_write(e, reg_index, val) ==
    IF reg_index \in 0 .. 3 THEN PmpSet(e, "cfg", reg_index, val) ELSE e

pmpaddr_csr_read(e, addr_index) ==
    IF addr_index \in 0 .. (MAX_RISCV_PMPS - 1)
    THEN PmpGet(e, "addr", addr_index) ELSE {}

pmpaddr_csr_write(e, addr_index, val) ==
    IF addr_index \in 0 .. (MAX_RISCV_PMPS - 1)
    THEN PmpSet(e, "addr", addr_index, val) ELSE e

read_pmpcfg(e, csrno) == RdOk(pmpcfg_csr_read(e, csrno - CSR_PMPCFG0))

write_pmpcfg(e, csrno, val) ==
    WrOk(pmpcfg_csr_write(e, csrno - CSR_PMPCFG0, val),
         <<"pmpcfg_csr_write">>)

read_pmpaddr(e, csrno) == RdOk(pmpaddr_csr_read(e, csrno - CSR_PMPADDR0))

write_pmpaddr(e, csrno, val) ==
    WrOk(pmpaddr_csr_write(e, csrno - CSR_PMPADDR0, val),
         <<"pmpaddr_csr_write">>)

(***************************************************************************)
(* Control and Status Register function table                              *)
(***************************************************************************)
NULL == "NULL"

\* A table whose entry for misa has a write accessor that stores the value.
Ops_misa_writer(read, write, op) ==
    [read |-> read,
     write |-> IF read = "read_misa" THEN "write_mscratch" ELSE write,
     op |-> op]

\* A riscv_csr_operations initializer: { read, write, op }, omitted members
\* being NULL.
Ops(read, write, op) == [read |-> read, write |-> write, op |-> op]

\* The number of elements of csr_ops[0xfff].
csr_ops_size == 4095

\* csr_ops[csrno] for an index inside the array. Where two designated range
\* initializers overlap the later one (pmpaddr) is the element's value.
csr_ops(csrno) ==
    LET rv32 == TARGET_LONG_BITS = 32 IN
    CASE csrno = CSR_FFLAGS -> Ops("read_fflags", "write_fflags", NULL)
      [] csrno = CSR_FRM -> Ops("read_frm", "write_frm", NULL)
      [] csrno = CSR_FCSR -> Ops("read_fcsr", "write_fcsr", NULL)
      [] csrno \in {CSR_CYCLE, CSR_INSTRET} -> Ops("read_instret", NULL, NULL)
      [] rv32 /\ csrno \in {CSR_CYCLEH, CSR_INSTRETH} ->
            Ops("read_instreth", NULL, NULL)
      [] csrno \in {CSR_MCYCLE, CSR_MINSTRET} ->
            Ops("read_instret", NULL, NULL)
      [] rv32 /\ csrno \in {CSR_MCYCLEH, CSR_MINSTRETH} ->
            Ops("read_instreth", NULL, NULL)
      [] csrno \in {CSR_MVENDORID, CSR_MARCHID, CSR_MIMPID} ->
            Ops("read_zero", NULL, NULL)
      [] csrno = CSR_MHARTID -> Ops("read_mhartid", NULL, NULL)
      [] csrno = CSR_MSTATUS -> Ops("read_mstatus", "write_mstatus", NULL)
      [] csrno = CSR_MISA -> Ops("read_misa", NULL, NULL)
      [] csrno = CSR_MIDELEG -> Ops("read_mideleg", "write_mideleg", NULL)
      [] csrno = CSR_MEDELEG -> Ops("read_medeleg", "write_medeleg", NULL)
      [] csrno = CSR_MIE -> Ops("read_mie", "write_mie", NULL)
      [] csrno = CSR_MTVEC -> Ops("read_mtvec", "write_mtvec", NULL)
      [] csrno = CSR_MCOUNTEREN ->
            Ops("read_mcounteren", "write_mcounteren", NULL)
      [] csrno = CSR_MUCOUNTEREN ->
            Ops("read_mucounteren", "write_mucounteren", NULL)
      [] csrno = CSR_MSCOUNTEREN ->
            Ops("read_mscounteren", "write_mscounteren", NULL)
      [] csrno = CSR_MSCRATCH -> Ops("read_mscratch", "write_mscratch", NULL)
      [] csrno = CSR_MEPC -> Ops("read_mepc", "write_mepc", NULL)
      [] csrno = CSR_MCAUSE -> Ops("read_mcause", "write_mcause", NULL)
      [] csrno = CSR_MBADADDR -> Ops("read_mbadaddr", "write_mbadaddr", NULL)
      [] csrno = CSR_MIP -> Ops(NULL, NULL, "rmw_mip")
      [] csrno = CSR_SSTATUS -> Ops("read_sstatus", "write_sstatus", NULL)
      [] csrno = CSR_SIE -> Ops("read_sie", "write_sie", NULL)
      [] csrno = CSR_STVEC -> Ops("read_stvec", "write_stvec", NULL)
      [] csrno = CSR_SCOUNTEREN ->
            Ops("read_scounteren", "write_scounteren", NULL)
      [] csrno = CSR_SSCRATCH -> Ops("read_sscratch", "write_sscratch", NULL)
      [] csrno = CSR_SEPC -> Ops("read_sepc", "write_sepc", NULL)
      [] csrno = CSR_SCAUSE -> Ops("read_scause", "write_scause", NULL)
      [] csrno = CSR_SBADADDR -> Ops("read_sbadaddr", "write_sbadaddr", NULL)
      [] csrno = CSR_SIP -> Ops(NULL, NULL, "rmw_sip")
      [] csrno = CSR_SATP -> Ops("read_satp", "write_satp", NULL)
      [] csrno \in CSR_PMPADDR0 .. CSR_PMPADDR15 ->
            Ops("read_pmpaddr", "write_pmpaddr", NULL)
      [] csrno \in CSR_PMPCFG0 .. CSR_PMPADDR9
         /\ csrno \notin CSR_PMPADDR0 .. CSR_PMPADDR15 ->
            Ops("read_pmpcfg", "write_pmpcfg", NULL)
      [] csrno \in CSR_HPMCOUNTER3 .. CSR_HPMCOUNTER31 ->
            Ops("read_zero_counter", NULL, NULL)
      [] csrno \in CSR_MHPMCOUNTER3 .. CSR_MHPMCOUNTER31 ->
            Ops("read_zero", NULL, NULL)
      [] csrno \in CSR_MHPMEVENT3 .. CSR_MHPMEVENT31 ->
            Ops("read_zero", NULL, NULL)
      [] rv32 /\ csrno \in CSR_HPMCOUNTER3H .. CSR_HPMCOUNTER31H ->
            Ops("read_zero_counter", NULL, NULL)
      [] rv32 /\ csrno \in CSR_MHPMCOUNTER3H .. CSR_MHPMCOUNTER31H ->
            Ops("read_zero", NULL, NULL)
      [] OTHER -> Ops(NULL, NULL, NULL)

\* (*csr_ops[csrno].read)(env, csrno, &old_value)
CallRead(fn, e, csrno, ticks) ==
    CASE fn = "read_instret" -> read_instret(e, csrno, ticks)
      [] fn = "read_instreth" -> read_instreth(e, csrno, ticks)
      [] fn = "read_fflags" -> read_fflags(e, csrno)
      [] fn = "read_frm" -> read_frm(e, csrno)
      [] fn = "read_fcsr" -> read_fcsr(e, csrno)
      [] fn = "read_zero_counter" -> read_zero_counter(e, csrno)
      [] fn = "read_zero" -> read_zero(e, csrno)
      [] fn = "read_mhartid" -> read_mhartid(e, csrno)
      [] fn = "read_mstatus" -> read_mstatus(e, csrno)
      [] fn = "read_misa" -> read_misa(e, csrno)
      [] fn = "read_medeleg" -> read_medeleg(e, csrno)
      [] fn = "read_mideleg" -> read_mideleg(e, csrno)
      [] fn = "read_mie" -> read_mie(e, csrno)
      [] fn = "read_mtvec" -> read_mtvec(e, csrno)
      [] fn = "read_mcounteren" -> read_mcounteren(e, csrno)
      [] fn = "read_mscounteren" -> read_mscounteren(e, csrno)
      [] fn = "read_mucounteren" -> read_mucounteren(e, csrno)
      [] fn = "read_mscratch" -> read_mscratch(e, csrno)
      [] fn = "read_mepc" -> read_mepc(e, csrno)
      [] fn = "read_mcause" -> read_mcause(e, csrno)
      [] fn = "read_mbadaddr" -> read_mbadaddr(e, csrno)
      [] fn = "read_sstatus" -> read_sstatus(e, csrno)
      [] fn = "read_sie" -> read_sie(e, csrno)
      [] fn = "read_stvec" -> read_stvec(e, csrno)
      [] fn = "read_scounteren" -> read_scounteren(e, csrno)
      [] fn = "read_sscratch" -> read_sscratch(e, csrno)
      [] fn = "read_sepc" -> read_sepc(e, csrno)
      [] fn = "read_scause" -> read_scause(e, csrno)
      [] fn = "read_sbadaddr" -> read_sbadaddr(e, csrno)
      [] fn = "read_satp" -> read_satp(e, csrno)
      [] fn = "read_pmpcfg" -> read_pmpcfg(e, csrno)
      [] fn = "read_pmpaddr" -> read_pmpaddr(e, csrno)

\* (*csr_ops[csrno].write)(env, csrno, new_value)
CallWrite(fn, e, csrno, val) ==
    CASE fn = "write_fflags" -> write_fflags(e, csrno, val)
      [] fn = "write_frm" -> write_frm(e, csrno, val)
      [] fn = "write_fcsr" -> write_fcsr(e, csrno, val)
      [] fn = "write_mstatus" -> write_mstatus(e, csrno, val)
      [] fn = "write_medeleg" -> write_medeleg(e, csrno, val)
      [] fn = "write_mideleg" -> write_mideleg(e, csrno, val)
      [] fn = "write_mie" -> write_mie(e, csrno, val)
      [] fn = "write_mtvec" -> write_mtvec(e, csrno, val)
      [] fn = "write_mcounteren" -> write_mcounteren(e, csrno, val)
      [] fn = "write_mscounteren" -> write_mscounteren(e, csrno, val)
      [] fn = "write_mucounteren" -> write_mucounteren(e, csrno, val)
      [] fn = "write_mscratch" -> write_mscratch(e, csrno, val)
      [] fn = "write_mepc" -> write_mepc(e, csrno, val)
      [] fn = "write_mcause" -> write_mcause(e, csrno, val)
      [] fn = "write_mbadaddr" -> write_mbadaddr(e, csrno, val)
      [] fn = "write_sstatus" -> write_sstatus(e, csrno, val)
      [] fn = "write_sie" -> write_sie(e, csrno, val)
      [] fn = "write_stvec" -> write_stvec(e, csrno, val)
      [] fn = "write_scounteren" -> write_scounteren(e, csrno, val)
      [] fn = "write_sscratch" -> write_sscratch(e, csrno, val)
      [] fn = "write_sepc" -> write_sepc(e, csrno, val)
      [] fn = "write_scause" -> write_scause(e, csrno, val)
      [] fn = "write_sbadaddr" -> write_sbadaddr(e, csrno, val)
      [] fn = "write_satp" -> write_satp(e, csrno, val)
      [] fn = "write_pmpcfg" -> write_pmpcfg(e, csrno, val)
      [] fn = "write_pmpaddr" -> write_pmpaddr(e, csrno, val)

\* (*csr_ops[csrno].op)(env, csrno, ret_value, new_value, write_mask)
CallOp(fn, e, csrno, new_value, write_mask) ==
    CASE fn = "rmw_mip" -> rmw_mip(e, csrno, new_value, write_mask)
      [] fn = "rmw_sip" -> rmw_sip(e, csrno, new_value, write_mask)

\* What lies behind the array: csr_ops[csrno] with csrno >= 0xfff reads the
\* bytes that follow csr_ops in memory.  They are either zero (three NULL
\* members) or not; a call through a pointer made of them does not return to
\* riscv_csrrw.
WILD == "WILD"

OutOfBounds ==
    {Ops(NULL, NULL, NULL), Ops(NULL, NULL, WILD), Ops(WILD, NULL, NULL)}

\* The element riscv_csrrw reads for csrno.
Lookup(csrno) ==
    IF csrno \in 0 .. (csr_ops_size - 1) THEN {csr_ops(csrno)}
    ELSE OutOfBounds

(***************************************************************************)
(* riscv_csrrw - read and/or update control and status register            *)
(*                                                                         *)
(* ops is the element csr_ops[csrno] the function reads.  The result holds *)
(* the status, *ret_value, the hart state left, the collaborator calls and *)
(* stores made, the accessors called, and the place the function returned  *)
(* from.                                                                   *)
(***************************************************************************)
Result(ret, val, e, ev, fns, stage) ==
    [ret |-> ret, val |-> val, env |-> e, ev |-> ev, fns |-> fns,
     stage |-> stage]

\* The gate without the test of the write mask: every access to a read-only
\* number is refused.
csr_gate_no_mask(e, csrno, write_mask) ==
    LET csr_priv == (csrno \div 256) % 4
        read_only == ((csrno \div 1024) % 4) = 3
    IN  read_only \/ (e.priv < csr_priv)

\* The check riscv_csrrw makes before it touches the table: the privilege
\* the number encodes in bits [9:8], and no write to a number whose bits
\* [11:10] say read-only.
csr_gate(e, csrno, write_mask) ==
    LET csr_priv == (csrno \div 256) % 4
        read_only == ((csrno \div 1024) % 4) = 3
    IN  (write_mask # {} /\ read_only) \/ (e.priv < csr_priv)

\* The read-then-write path handing the write accessor new_value as it came.
csr_read_modify_write_unmerged(e, csrno, new_value, write_mask, ops, ticks) ==
    LET rd == CallRead(ops.read, e, csrno, ticks)
        old_value == rd.val
    IN
    IF rd.ret < 0
    THEN Result(rd.ret, {}, e, <<>>, <<ops.read>>, "read")
    ELSE IF write_mask # {} /\ ops.write # NULL
    THEN LET wr == CallWrite(ops.write, e, csrno, new_value)
         IN  IF wr.ret < 0
             THEN Result(wr.ret, {}, wr.env, wr.ev,
                         <<ops.read, ops.write>>, "write")
             ELSE Result(0, old_value, wr.env, wr.ev,
                         <<ops.read, ops.write>>, "done")
    ELSE Result(0, old_value, e, <<>>, <<ops.read>>, "done")

\* The generic path of riscv_csrrw: read the old value, write the merged
\* value if any bit is selected, hand back the old value.
csr_read_modify_write(e, csrno, new_value, write_mask, ops, ticks) ==
    LET rd == CallRead(ops.read, e, csrno, ticks)
        old_value == rd.val
    IN
    IF rd.ret < 0
    THEN Result(rd.ret, {}, e, <<>>, <<ops.read>>, "read")
    ELSE IF write_mask # {} /\ ops.write # NULL
    THEN LET merged == (old_value \ write_mask)
                       \cup (new_value \cap write_mask)
             wr == CallWrite(ops.write, e, csrno, merged)
         IN  IF wr.ret < 0
             THEN Result(wr.ret, {}, wr.env, wr.ev,
                         <<ops.read, ops.write>>, "write")
             ELSE Result(0, old_value, wr.env, wr.ev,
                         <<ops.read, ops.write>>, "done")
    ELSE Result(0, old_value, e, <<>>, <<ops.read>>, "done")

riscv_csrrw(e, csrno, new_value, write_mask, ops, ticks) ==
    IF csr_gate(e, csrno, write_mask)
    THEN Result(-1, {}, e, <<>>, <<>>, "gate")
    ELSE IF ops.op = WILD \/ (ops.op = NULL /\ ops.read = WILD)
    THEN Result(0, {}, e, <<>>, <<WILD>>, "crash")
    ELSE IF ops.op # NULL
    THEN LET r == CallOp(ops.op, e, csrno, new_value, write_mask)
         IN  Result(r.ret, r.val, r.env, r.ev, <<ops.op>>, "op")
    ELSE IF ops.read = NULL
    THEN Result(-1, {}, e, <<>>, <<>>, "no_accessor")
    ELSE csr_read_modify_write(e, csrno, new_value, write_mask, ops, ticks)

(***************************************************************************)
(* The harts.  cpu.h names the CPU models; a model fixes misa, priv_ver    *)
(* and the features, and reset zeroes the rest and enters machine mode.    *)
(***************************************************************************)
RVXLEN(t) == IF t = 32 THEN {30} ELSE {63}

IMAFDCSU == RVI \cup RVM \cup RVA \cup RVF \cup RVD \cup RVC \cup RVS \cup RVU

IMACU == RVI \cup RVM \cup RVA \cup RVC \cup RVU

IMAC == RVI \cup RVM \cup RVA \cup RVC

CpuModel(name) ==
    CASE name = "riscv-imafdcsu-priv1.9" ->
           [misa |-> IMAFDCSU, priv_ver |-> PRIV_VERSION_1_09_1,
            features |-> {RISCV_FEATURE_MMU, RISCV_FEATURE_PMP}]
      [] name = "riscv-imafdcsu-priv1.10" ->
           [misa |-> IMAFDCSU, priv_ver |-> PRIV_VERSION_1_10_0,
            features |-> {RISCV_FEATURE_MMU, RISCV_FEATURE_PMP}]
      [] name = "riscv-imacu-priv1.10" ->
           [misa |-> IMACU, priv_ver |-> PRIV_VERSION_1_10_0,
            features |-> {RISCV_FEATURE_PMP}]
      [] name = "riscv-imac-priv1.10" ->
           [misa |-> IMAC, priv_ver |-> PRIV_VERSION_1_10_0,
            features |-> {RISCV_FEATURE_PMP}]

CpuModels ==
    {"riscv-imafdcsu-priv1.9", "riscv-imafdcsu-priv1.10",
     "riscv-imacu-priv1.10", "riscv-imac-priv1.10"}

PmpReset == {}

ResetEnv(name, t) ==
    [priv |-> PRV_M,
     priv_ver |-> CpuModel(name).priv_ver,
     misa |-> RVXLEN(t) \cup CpuModel(name).misa,
     features |-> CpuModel(name).features,
     mhartid |-> {},
     frm |-> {}, fflags |-> {},
     mucounteren |-> {}, mscounteren |-> {},
     mstatus |-> {}, mip |-> {}, mie |-> {}, mideleg |-> {}, medeleg |-> {},
     sptbr |-> {}, satp |-> {},
     sbadaddr |-> {}, mbadaddr |-> {},
     stvec |-> {}, sepc |-> {}, scause |-> {},
     mtvec |-> {}, mepc |-> {}, mcause |-> {},
     scounteren |-> {}, mcounteren |-> {},
     sscratch |-> {}, mscratch |-> {},
     pmp_state |-> PmpReset]

(***************************************************************************)
(* The programs explored.  A program runs on one hart and executes CSR     *)
(* instructions on one family of CSRs; the families share no register      *)
(* except mstatus, which the floating-point family also writes.  The       *)
(* operands are chosen so that every field the accessors test takes each   *)
(* of its cases.                                                           *)
(***************************************************************************)
Families ==
    {"probe", "int", "status", "fp", "counter", "vm", "tvec", "deleg",
     "mscratch", "sscratch", "pmp"}

\* A probing program executes MaxCalls CSR instructions on any of the 4096
\* CSR numbers an instruction can encode.
MaxCalls == 1

CsrNumbers == 0 .. 4095

FamilyCsrs(f) ==
    CASE f = "probe" -> CsrNumbers
      [] f = "int" -> {CSR_MIP, CSR_SIP, CSR_MIE, CSR_SIE, CSR_MIDELEG}
      [] f = "status" -> {CSR_MSTATUS, CSR_SSTATUS}
      [] f = "fp" -> {CSR_FFLAGS, CSR_FRM, CSR_FCSR, CSR_MSTATUS}
      [] f = "counter" ->
           {CSR_MCOUNTEREN, CSR_SCOUNTEREN, CSR_MUCOUNTEREN, CSR_MSCOUNTEREN,
            CSR_CYCLE, CSR_INSTRET, CSR_INSTRETH, CSR_HPMCOUNTER3,
            CSR_HPMCOUNTER31H, CSR_MCYCLE}
      [] f = "vm" -> {CSR_SATP}
      [] f = "tvec" -> {CSR_MTVEC, CSR_STVEC}
      [] f = "deleg" ->
           {CSR_MEDELEG, CSR_MISA, CSR_MHARTID, CSR_MVENDORID,
            CSR_MHPMEVENT3, CSR_MHPMCOUNTER31}
      [] f = "mscratch" -> {CSR_MSCRATCH, CSR_MEPC, CSR_MCAUSE, CSR_MBADADDR}
      [] f = "sscratch" -> {CSR_SSCRATCH, CSR_SEPC, CSR_SCAUSE, CSR_SBADADDR}
      [] f = "pmp" ->
           {CSR_PMPCFG0, CSR_PMPCFG0 + 3, CSR_PMPCFG0 + 4, CSR_PMPADDR0 - 1,
            CSR_PMPADDR0, CSR_PMPADDR9, CSR_PMPADDR15, CSR_PMPADDR15 + 1}

FamilyModels(f) ==
    CASE f = "status" ->
           {"riscv-imafdcsu-priv1.9", "riscv-imafdcsu-priv1.10",
            "riscv-imac-priv1.10"}
      [] f \in {"probe", "counter"} ->
           {"riscv-imafdcsu-priv1.9", "riscv-imafdcsu-priv1.10"}
      [] f = "vm" ->
           {"riscv-imafdcsu-priv1.9", "riscv-imafdcsu-priv1.10",
            "riscv-imac-priv1.10"}
      [] OTHER -> {"riscv-imafdcsu-priv1.10"}

FamilyTargets(f) ==
    IF f \in {"probe", "status", "fp", "counter", "vm"} THEN {32, 64}
    ELSE {64}

\* riscv_csrrw's (new_value, write_mask) for each CSR instruction:
\*   csrr  <->  riscv_csrrw(env, csrno, ret_value, 0, 0);
\*   csrrw <->  riscv_csrrw(env, csrno, ret_value, value, -1);
\*   csrrs <->  riscv_csrrw(env, csrno, ret_value, -1, value);
\*   csrrc <->  riscv_csrrw(env, csrno, ret_value, 0, value);
\* value is a register of the hart: bits above the word width do not exist.
csrr == <<{}, {}>>

csrrw(value) == <<value \cap Ones, Ones>>

csrrs(value) == <<Ones, value \cap Ones>>

csrrc(value) == <<{}, value \cap Ones>>

AllOnes == 0 .. 63

\* The CSR instructions a program of the family executes, as
\* (new_value, write_mask).
FamilyInputs(f) ==
    CASE f = "probe" -> {csrr, csrrw(AllOnes)}
      [] f = "int" ->
           \* all of SSIP, MSIP, STIP, MTIP, SEIP with two bits that are
           \* no interrupt of the hart; SSIP and MSIP alone
           {csrr, csrrw({0, 1, 3, 5, 7, 9, 11}), csrrc({1, 3}), csrrc({5, 9})}
      [] f = "status" ->
           \* MIE, MPP = M, FS = Initial, MPRV; SIE, MPP = H, FS = Clean, MXR,
           \* VM = 9, SD; SPP, MPP = S, XS, SUM, VM = 7
           {csrr, csrrw({3, 11, 12, 13, 17}), csrrs({3, 11, 12, 13, 17}),
            csrrc({3, 11, 12, 13, 17}),
            csrrw({1, 12, 14, 19, 24, 27, 31, 63}),
            csrrw({8, 11, 15, 16, 18, 24, 25, 26}), csrrc({13})}
      [] f = "fp" ->
           {csrr, csrrs({}), csrrw({0, 2, 5, 7, 13}), csrrw({1, 3, 7, 9}),
            csrrc({0, 5, 13, 14})}
      [] f = "counter" -> {csrr, csrrw({0, 3}), csrrw({2, 31, 32})}
      [] f = "vm" ->
           {csrr, csrrw({0, 31, 40, 63}), csrrw({1, 22, 60, 61, 62}),
            csrrw(AllOnes), csrrs({44}), csrrc({0, 31, 63})}
      [] f = "tvec" ->
           {csrr, csrrw({2, 5}), csrrw({0, 3}), csrrs({1, 4}), csrrs({6}),
            csrrw(AllOnes)}
      [] f = "deleg" ->
           {csrr, csrrw({0, 2, 14, 16}), csrrs({8, 15, 20}), csrrc({0, 2})}
      [] f \in {"mscratch", "sscratch"} ->
           {csrr, csrrw({0, 63}), csrrs({63}), csrrc({0, 63})}
      [] f = "pmp" -> {csrr, csrrw({0, 3}), csrrc({0, 3})}

\* What cpu_get_icount() / cpu_get_host_ticks() may return when a counter is
\* read.
HostTicks == {{0, 33}, {1, 2, 40}}

UsesTicks(csrno) ==
    \E ops \in Lookup(csrno) : ops.read \in {"read_instret", "read_instreth"}

NoCall ==
    [kind |-> "none", csrno |-> 0, new_value |-> {}, write_mask |-> {},
     ret |-> 0, val |-> {}, ev |-> <<>>, fns |-> <<>>, stage |-> "none",
     ticks |-> {}, old |-> env]

\* No thread is inside an update of mip: the mutex is free and the hart's
\* interrupt line is low, as mip is zero at reset.
HartIdle ==
    [pc |-> 0, csrno |-> 0, new_value |-> {}, write_mask |-> {}, ev |-> <<>>,
     updated |-> FALSE, new |-> {}, old_mip |-> {}]

DeviceIdle == [pc |-> "idle", mask |-> {}, value |-> {}, new |-> {}]

Quiescent ==
    [owner |-> "none", irq |-> FALSE, hart |-> HartIdle, device |-> DeviceIdle]

InitFamily(f) ==
    \E name \in FamilyModels(f), t \in FamilyTargets(f) :
      /\ family = f
      /\ target = t
      /\ env = ResetEnv(name, t)
      /\ call = [NoCall EXCEPT !.old = ResetEnv(name, t)]
      /\ calls = 0
      /\ sync = Quiescent

Init == \E f \in Families : InitFamily(f)

\* The hart executes one CSR instruction: riscv_csrrw(env, csrno, &ret_value,
\* new_value, write_mask).
Csrrw(csrno, new_value, write_mask) ==
    /\ \E ops \in Lookup(csrno) :
         \E ticks \in (IF UsesTicks(csrno) THEN HostTicks ELSE {{}}) :
           LET r == riscv_csrrw(env, csrno, new_value, write_mask, ops, ticks)
           IN  /\ env' = r.env
               /\ call' = [kind |-> "csrrw", csrno |-> csrno,
                           new_value |-> new_value,
                           write_mask |-> write_mask,
                           ret |-> r.ret, val |-> r.val, ev |-> r.ev,
                           fns |-> r.fns, stage |-> r.stage,
                           ticks |-> ticks, old |-> env]
    /\ calls' = IF family = "probe" THEN calls + 1 ELSE calls
    /\ UNCHANGED <<target, family, sync>>

Step ==
    /\ call.stage # "crash"
    /\ family = "probe" => calls < MaxCalls
    /\ \E csrno \in FamilyCsrs(family), in \in FamilyInputs(family) :
         Csrrw(csrno, in[1], in[2])

\* riscv_set_mode(env, newpriv): a trap or a trap return moves the hart to
\* another privilege mode it implements.
riscv_set_mode(e, newpriv) == [e EXCEPT !.priv = newpriv]

SetMode ==
    /\ call.stage # "crash"
    /\ \E newpriv \in {PRV_U, PRV_S, PRV_M} :
         /\ newpriv # env.priv
         /\ newpriv = PRV_U => riscv_has_ext(env, RVU)
         /\ newpriv = PRV_S => riscv_has_ext(env, RVS)
         /\ env' = riscv_set_mode(env, newpriv)
         /\ call' = [NoCall EXCEPT !.old = env']
    /\ UNCHANGED <<target, family, calls, sync>>

\* A device thread (the CLINT, the PLIC) raises or lowers an interrupt line
\* of the hart: riscv_set_local_interrupt under the iothread mutex.
DeviceLines == {MIP_MSIP, MIP_SEIP}

DeviceInterrupt ==
    /\ call.stage # "crash"
    /\ family = "int"
    /\ \E mask \in DeviceLines, value \in {{}, AllOnes} :
         /\ env' = riscv_set_local_interrupt(env, mask, value \cap mask).env
         /\ env' # env
         /\ call' = [NoCall EXCEPT !.old = env']
    /\ UNCHANGED <<target, family, calls, sync>>

Next == Step \/ SetMode \/ DeviceInterrupt

Spec == Init /\ [][Next]_vars

\* One family at a time.  Only the interrupt family has device lines.
NextHart == Step \/ SetMode

SpecProbe == InitFamily("probe") /\ [][NextHart]_vars

SpecInt == InitFamily("int") /\ [][Next]_vars

SpecStatus == InitFamily("status") /\ [][NextHart]_vars

SpecCounter == InitFamily("counter") /\ [][NextHart]_vars

SpecFp == InitFamily("fp") /\ [][NextHart]_vars

SpecVm == InitFamily("vm") /\ [][NextHart]_vars

SpecTvec == InitFamily("tvec") /\ [][NextHart]_vars

SpecPmp == InitFamily("pmp") /\ [][NextHart]_vars

(***************************************************************************)
(* The hart thread against a device thread.  A CSR instruction on mip or   *)
(* sip runs as the sequence of collaborator calls its accessor makes, one  *)
(* call a step; a device thread injects an interrupt under the iothread    *)
(* mutex.  riscv_set_local_interrupt updates the pending bitmap atomically *)
(* and then re-evaluates the delivery of an interrupt to the hart from the *)
(* bitmap it has written.                                                  *)
(***************************************************************************)
HartInputs == FamilyInputs("int") \cup {csrrw({})}

\* The call the hart thread is in, run on the state e.
HartCall(e) ==
    riscv_csrrw(e, sync.hart.csrno, sync.hart.new_value, sync.hart.write_mask,
                csr_ops(sync.hart.csrno), {})

HartAt(event) ==
    /\ sync.hart.pc \in 1 .. Len(sync.hart.ev)
    /\ sync.hart.ev[sync.hart.pc] = event

\* The hart starts a CSR instruction on mip or sip: gate, lookup and the
\* accessor's computation of its mask.
HartEnter ==
    /\ sync.hart.pc = 0
    /\ \E csrno \in {CSR_MIP, CSR_SIP}, in \in HartInputs :
         LET r == riscv_csrrw(env, csrno, in[1], in[2], csr_ops(csrno), {})
         IN  sync' = [sync EXCEPT !.hart =
                        [HartIdle EXCEPT !.pc = 1, !.csrno = csrno,
                                         !.new_value = in[1],
                                         !.write_mask = in[2], !.ev = r.ev]]
    /\ UNCHANGED <<env, target, call, family, calls>>

\* qemu_mutex_lock_iothread() blocks until the mutex is free.
HartLock ==
    /\ HartAt("qemu_mutex_lock_iothread")
    /\ sync.owner = "none"
    /\ sync' = [sync EXCEPT !.owner = "hart", !.hart.pc = @ + 1]
    /\ UNCHANGED <<env, target, call, family, calls>>

\* riscv_set_local_interrupt, first half: the atomic update of the bitmap
\* as it is now, with the mask and the value the accessor passed.
HartUpdate ==
    /\ HartAt("riscv_set_local_interrupt")
    /\ ~sync.hart.updated
    /\ env' = HartCall(env).env
    /\ sync' = [sync EXCEPT !.hart.updated = TRUE, !.hart.new = env'.mip,
                            !.hart.old_mip = env.mip]
    /\ UNCHANGED <<target, call, family, calls>>

\* riscv_set_local_interrupt, second half: the interrupt line of the hart
\* follows the bitmap this thread wrote.
HartDeliver ==
    /\ HartAt("riscv_set_local_interrupt")
    /\ sync.hart.updated
    /\ sync' = [sync EXCEPT !.irq = (sync.hart.new # {}),
                            !.hart.updated = FALSE, !.hart.pc = @ + 1]
    /\ UNCHANGED <<env, target, call, family, calls>>

\* qemu_mutex_unlock_iothread() releases the mutex the thread holds.
HartUnlock ==
    /\ HartAt("qemu_mutex_unlock_iothread")
    /\ sync' = [sync EXCEPT
                  !.owner = IF @ = "hart" THEN "none" ELSE @,
                  !.hart.pc = @ + 1]
    /\ UNCHANGED <<env, target, call, family, calls>>

\* atomic_read(&env->mip)
HartAtomicRead ==
    /\ HartAt("atomic_read")
    /\ sync' = [sync EXCEPT !.hart.old_mip = env.mip, !.hart.pc = @ + 1]
    /\ UNCHANGED <<env, target, call, family, calls>>

\* The accessor and riscv_csrrw return.
HartReturn ==
    /\ sync.hart.pc > Len(sync.hart.ev)
    /\ sync' = [sync EXCEPT !.hart = HartIdle]
    /\ UNCHANGED <<env, target, call, family, calls>>

\* Between two accesses to mip or sip the hart changes what it delegates.
HartDelegate ==
    /\ sync.hart.pc = 0
    /\ Step
    /\ call'.csrno = CSR_MIDELEG

\* A device thread takes the mutex to raise or lower one of its lines.
DeviceLock ==
    /\ sync.device.pc = "idle"
    /\ sync.owner = "none"
    /\ \E mask \in DeviceLines, value \in {{}, AllOnes} :
         sync' = [sync EXCEPT !.owner = "device",
                              !.device = [pc |-> "update", mask |-> mask,
                                          value |-> value \cap mask,
                                          new |-> {}]]
    /\ UNCHANGED <<env, target, call, family, calls>>

DeviceUpdate ==
    /\ sync.device.pc = "update"
    /\ env' = riscv_set_local_interrupt(env, sync.device.mask,
                                        sync.device.value).env
    /\ sync' = [sync EXCEPT !.device.pc = "deliver", !.device.new = env'.mip]
    /\ UNCHANGED <<target, call, family, calls>>

DeviceDeliver ==
    /\ sync.device.pc = "deliver"
    /\ sync' = [sync EXCEPT !.irq = (sync.device.new # {}),
                            !.device.pc = "unlock"]
    /\ UNCHANGED <<env, target, call, family, calls>>

DeviceUnlock ==
    /\ sync.device.pc = "unlock"
    /\ sync' = [sync EXCEPT !.owner = "none", !.device = DeviceIdle]
    /\ UNCHANGED <<env, target, call, family, calls>>

NextMutex ==
    \/ HartEnter \/ HartLock \/ HartUpdate \/ HartDeliver \/ HartUnlock
    \/ HartAtomicRead \/ HartReturn \/ HartDelegate
    \/ DeviceLock \/ DeviceUpdate \/ DeviceDeliver \/ DeviceUnlock

SpecMutex == InitFamily("int") /\ [][NextMutex]_vars

(***************************************************************************)
(* Properties.  call records the last CSR instruction: its inputs, the     *)
(* hart state it started from (old), what it returned and what it did.     *)
(***************************************************************************)
IsCall == call.kind = "csrrw"

\* The instruction raised an illegal-instruction exception:
\* riscv_csrrw returned a negative status.
Illegal == IsCall /\ call.stage # "crash" /\ call.ret < 0

Success == IsCall /\ call.stage # "crash" /\ call.ret = 0

\* The fields of a CSR number, read off the number's value.
PrivOf(csrno) == (csrno % 1024) \div 256

ReadOnlyNumber(csrno) == csrno >= 3072

\* C1: an access is illegal when the hart's privilege is below the level in
\* bits [9:8] of the number, or when it selects a bit to write and bits
\* [11:10] of the number are both set; a read with write mask zero of such a
\* read-only number at sufficient privilege is not rejected by the gate.
C1_Gate ==
    IsCall =>
      /\ (call.old.priv < PrivOf(call.csrno)
           \/ (call.write_mask # {} /\ ReadOnlyNumber(call.csrno)))
         => Illegal
      /\ (call.write_mask = {} /\ ReadOnlyNumber(call.csrno)
           /\ call.old.priv >= PrivOf(call.csrno))
         => call.stage # "gate"

\* A read of the read-only number of mhartid in machine mode succeeds, and a
\* write to it is rejected.
C1_Witness ==
    /\ Success
    /\ call.csrno = CSR_MHARTID
    /\ call.write_mask = {}
    /\ call.old.priv = PRV_M

\* The numbers the table gives an accessor.
Mapped(csrno) ==
    /\ csrno \in 0 .. (csr_ops_size - 1)
    /\ csr_ops(csrno) # Ops(NULL, NULL, NULL)

\* C2: an access to a number with no entry in the table, when the gate lets
\* it through, is illegal, and the lookup stays inside the table for every
\* 12-bit number, 0xFFF included.
C2_UnmappedIllegal ==
    (IsCall /\ call.stage # "gate" /\ ~Mapped(call.csrno)) =>
      /\ Illegal
      /\ call.csrno \in 0 .. (csr_ops_size - 1)

\* C3: an instruction that raises the illegal-instruction exception leaves
\* the hart state as it was and has called no collaborator: no TLB flush, no
\* mutex operation, no store.
C3_IllegalNoEffect ==
    Illegal => (env = call.old /\ call.ev = <<>>)

\* A write to fflags with the floating-point unit off is refused by the
\* accessor, after the gate let it through.
C3_Witness ==
    /\ Illegal
    /\ call.csrno = CSR_FFLAGS
    /\ call.write_mask # {}
    /\ call.fns = <<"read_fflags">>

\* The value each register holds in a hart state, as the architecture
\* defines it: the supervisor registers are windows onto the machine ones.
SstatusWindow(e) ==
    {0, 1, 4, 5, 8, 13, 14, 15, 16, 18} \cup {target - 1}
    \cup (IF e.priv_ver = PRIV_VERSION_1_09_1 THEN {} ELSE {19})

HasValue(csrno) ==
    csrno \in {CSR_MIP, CSR_SIP, CSR_MIE, CSR_SIE, CSR_MIDELEG, CSR_MEDELEG,
               CSR_MSTATUS, CSR_SSTATUS, CSR_FFLAGS, CSR_FRM, CSR_FCSR,
               CSR_MSCRATCH, CSR_MEPC, CSR_MCAUSE, CSR_MBADADDR,
               CSR_SSCRATCH, CSR_SEPC, CSR_SCAUSE, CSR_SBADADDR,
               CSR_MTVEC, CSR_STVEC, CSR_MISA, CSR_MHARTID,
               CSR_MCOUNTEREN, CSR_SCOUNTEREN, CSR_MSCOUNTEREN,
               CSR_MUCOUNTEREN, CSR_CYCLE, CSR_INSTRET, CSR_MCYCLE,
               CSR_MINSTRET}

RegisterValue(e, csrno, ticks) ==
    CASE csrno = CSR_MIP -> e.mip
      [] csrno = CSR_SIP -> e.mip \cap e.mideleg
      [] csrno = CSR_MIE -> e.mie
      [] csrno = CSR_SIE -> e.mie \cap e.mideleg
      [] csrno = CSR_MIDELEG -> e.mideleg
      [] csrno = CSR_MEDELEG -> e.medeleg
      [] csrno = CSR_MSTATUS -> e.mstatus
      [] csrno = CSR_SSTATUS -> e.mstatus \cap SstatusWindow(e)
      [] csrno = CSR_FFLAGS -> e.fflags
      [] csrno = CSR_FRM -> e.frm
      [] csrno = CSR_FCSR -> e.fflags \cup {b + 5 : b \in e.frm}
      [] csrno = CSR_MSCRATCH -> e.mscratch
      [] csrno = CSR_MEPC -> e.mepc
      [] csrno = CSR_MCAUSE -> e.mcause
      [] csrno = CSR_MBADADDR -> e.mbadaddr
      [] csrno = CSR_SSCRATCH -> e.sscratch
      [] csrno = CSR_SEPC -> e.sepc
      [] csrno = CSR_SCAUSE -> e.scause
      [] csrno = CSR_SBADADDR -> e.sbadaddr
      [] csrno = CSR_MTVEC -> e.mtvec
      [] csrno = CSR_STVEC -> e.stvec
      [] csrno = CSR_MISA -> e.misa
      [] csrno = CSR_MHARTID -> e.mhartid
      [] csrno \in {CSR_MCOUNTEREN, CSR_MSCOUNTEREN} -> e.mcounteren
      [] csrno \in {CSR_SCOUNTEREN, CSR_MUCOUNTEREN} -> e.scounteren
      [] csrno \in {CSR_CYCLE, CSR_INSTRET, CSR_MCYCLE, CSR_MINSTRET} ->
            ticks \cap Ones

\* What a read may do besides returning a value.
ReadOnlyEvents == {<<>>, <<"atomic_read">>}

\* C4: with write mask zero the operation is a pure read - no writer runs,
\* mip is read without the mutex, the TLB is not flushed, FS is not marked
\* dirty - and on success the value returned is the register's current
\* value.
C4_PureRead ==
    (IsCall /\ call.stage # "crash" /\ call.write_mask = {}) =>
      /\ env = call.old
      /\ call.ev \in ReadOnlyEvents
      /\ call.fns \in {<<>>, <<csr_ops(call.csrno).read>>,
                        <<csr_ops(call.csrno).op>>}
      /\ (Success /\ HasValue(call.csrno)) =>
            call.val = RegisterValue(call.old, call.csrno, call.ticks)

\* The part of C4 that holds of the code: a read changes nothing and calls
\* no collaborator; and every register but sip reads as its value.
C4_Frame ==
    (IsCall /\ call.stage # "crash" /\ call.write_mask = {}) =>
      /\ env = call.old
      /\ call.ev \in ReadOnlyEvents
      /\ (Success /\ HasValue(call.csrno) /\ call.csrno # CSR_SIP) =>
            call.val = RegisterValue(call.old, call.csrno, call.ticks)

\* The registers with both a reader and a writer whose storage is the hart
\* state of this module (the PMP registers live in the PMP module).
HasReaderAndWriter(n) ==
    /\ n \notin CSR_PMPCFG0 .. CSR_PMPADDR15
    /\ csr_ops(n).read # NULL
    /\ csr_ops(n).write # NULL

\* The bits each register implements in a hart state.
MstatusBits(e) ==
    {1, 3, 5, 7, 8, 11, 12, 13, 14, 17, 18, 19}
    \cup (IF e.priv_ver = PRIV_VERSION_1_09_1 THEN 24 .. 28 ELSE {})

WritableMask(e, csrno) ==
    CASE csrno = CSR_FFLAGS -> 0 .. 4
      [] csrno = CSR_FRM -> 0 .. 2
      [] csrno = CSR_FCSR -> 0 .. 7
      [] csrno = CSR_MSTATUS -> MstatusBits(e)
      [] csrno = CSR_SSTATUS -> MstatusBits(e) \cap SstatusWindow(e)
      [] csrno = CSR_MIE -> {1, 3, 5, 7, 9}
      [] csrno = CSR_SIE -> e.mideleg
      [] csrno = CSR_MIDELEG -> {1, 5, 9}
      [] csrno = CSR_MEDELEG -> (0 .. 15) \ {14}
      [] csrno \in {CSR_MTVEC, CSR_STVEC} -> Ones \ {0, 1}
      [] csrno = CSR_SATP ->
           IF RISCV_FEATURE_MMU \notin e.features THEN {}
           ELSE IF e.priv_ver = PRIV_VERSION_1_09_1
           THEN 0 .. (IF target = 32 THEN 21 ELSE 37)
           ELSE Ones
      [] OTHER -> Ones

\* What a read of the number last accessed returns in the current state.
ReadBack ==
    riscv_csrrw(env, call.csrno, {}, {}, csr_ops(call.csrno), {})

FullWrite ==
    /\ Success
    /\ call.write_mask = Ones
    /\ HasReaderAndWriter(call.csrno)

SupportedMode(e, m) ==
    \/ m = 3
    \/ (m = 1 /\ 18 \in e.misa)
    \/ (m = 0 /\ 20 \in e.misa)

SupportedVm(e, vm) ==
    IF e.priv_ver = PRIV_VERSION_1_09_1
    THEN vm \in (IF target = 32 THEN {0, 8} ELSE {0, 9, 10})
    ELSE vm \in (IF target = 32 THEN {0, 1} ELSE {0, 8, 9, 10})

Field(v, lo, hi) == FieldSum(v, lo, hi - lo + 1)

\* What mstatus holds after a write of v that started from state e: the
\* plain bits as written; MPP and VM as written when v names a supported
\* mode, as they were otherwise; FS Off or Dirty; SD recomputed; the rest as
\* it was.
MstatusAfter(e, v) ==
    LET plain == MstatusBits(e) \ ((11 .. 14) \cup (24 .. 28))
        mpp == IF SupportedMode(e, Field(v, 11, 12)) THEN v ELSE e.mstatus
        vm == IF SupportedVm(e, Field(v, 24, 28)) THEN v ELSE e.mstatus
        vmbits == MstatusBits(e) \cap (24 .. 28)
        fs == IF v \cap {13, 14} = {} THEN {} ELSE {13, 14}
        xs == e.mstatus \cap {15, 16}
        sd == IF fs # {} \/ xs = {15, 16} THEN {target - 1} ELSE {}
        kept == e.mstatus \ (MstatusBits(e) \cup {target - 1})
    IN  (v \cap plain) \cup (mpp \cap {11, 12}) \cup (vm \cap vmbits)
        \cup fs \cup sd \cup kept

\* What a read returns after a successful full-mask write of v that started
\* from state e.
AfterWrite(e, csrno, v) ==
    CASE csrno \in {CSR_MTVEC, CSR_STVEC} ->
           IF v \cap {0, 1} = {} THEN v
           ELSE RegisterValue(e, csrno, {})
      [] csrno = CSR_SATP ->
           IF RISCV_FEATURE_MMU \in e.features
              /\ e.priv_ver # PRIV_VERSION_1_09_1
              /\ ~SupportedVm(e, Field(v, (IF target = 32 THEN 31 ELSE 60),
                                      target - 1))
           THEN e.satp
           ELSE v \cap WritableMask(e, csrno)
      [] csrno = CSR_MSTATUS -> MstatusAfter(e, v)
      [] csrno = CSR_SSTATUS ->
           MstatusAfter(e, (e.mstatus \ SstatusWindow(e))
                           \cup (v \cap SstatusWindow(e)))
           \cap SstatusWindow(e)
      [] OTHER -> v \cap WritableMask(e, csrno)

C6_SipRead ==
    (Success /\ call.csrno = CSR_SIP) =>
      call.val = call.old.mip \cap call.old.mideleg

\* The merge of a write with mask m and value v into a register holding r.
Merge(r, m, v) == (r \ m) \cup (v \cap m)

\* C7 as stated: a write to mip returns the prior mip and leaves
\* (mip & ~m') | (v & m') with m' the write mask less SEIP only, so that a
\* mask selecting MSIP or MTIP updates them.
C7_MipWriteAllButSeip ==
    (Success /\ call.csrno = CSR_MIP) =>
      /\ call.val = call.old.mip
      /\ env.mip = Merge(call.old.mip, call.write_mask \ {9}, call.new_value)

\* C7: a write to mip returns the prior mip and leaves
\* (mip & ~m') | (v & m') with m' the write mask restricted to SSIP and
\* STIP; MSIP, MTIP and SEIP stay as they were whatever the mask selects.
C7_MipWriteSoftware ==
    (Success /\ call.csrno = CSR_MIP) =>
      /\ call.val = call.old.mip
      /\ env.mip = Merge(call.old.mip, call.write_mask \cap {1, 5},
                         call.new_value)

\* A machine-mode write to mip that selects MSIP and SSIP with both set in
\* the value: SSIP is set, MSIP is not.
C7_Witness ==
    /\ Success
    /\ call.csrno = CSR_MIP
    /\ call.old.priv = PRV_M
    /\ {1, 3} \subseteq (call.write_mask \cap call.new_value)
    /\ call.old.mip \cap {1, 3} = {}
    /\ env.mip \cap {1, 3} = {1}

\* The counters a program may read below machine mode.
UserCounter(csrno) ==
    csr_ops(csrno).read \in {"read_instret", "read_instreth",
                             "read_zero_counter"}
    /\ PrivOf(csrno) = 0

\* C8: a read of cycle, instret or hpmcounterN succeeds from S mode exactly
\* when bit (csrno & 31) of the value last written to mcounteren (1.10) or
\* mscounteren (1.9.1) is set, and from U mode exactly when that bit of
\* scounteren (1.10) or mucounteren (1.9.1) is set.  Both registers of a pair
\* store into one field, which holds the value last written.
C8_CounterEnable ==
    (IsCall /\ UserCounter(call.csrno) /\ call.write_mask = {}) =>
      /\ (call.old.priv = PRV_S) =>
            (Success <=> (call.csrno % 32) \in call.old.mcounteren)
      /\ (call.old.priv = PRV_U) =>
            (Success <=> (call.csrno % 32) \in call.old.scounteren)

\* C9: a read of sstatus returns mstatus & sstatus_mask[priv_ver], and a
\* write through sstatus leaves every mstatus bit outside that mask as it
\* was: MIE, MPIE, MPP, MPRV, and under 1.9.1 MXR and VM as well.
C9_SstatusWindow ==
    (Success /\ call.csrno = CSR_SSTATUS) =>
      /\ call.val = call.old.mstatus \cap SstatusWindow(call.old)
      /\ env.mstatus \ SstatusWindow(call.old)
           = call.old.mstatus \ SstatusWindow(call.old)

\* Under 1.9.1, a write through sstatus that selects MXR, MPP and VM bits
\* which differ from those of mstatus changes mstatus, and not those bits.
C9_Witness ==
    /\ Success
    /\ call.csrno = CSR_SSTATUS
    /\ call.old.priv_ver = PRIV_VERSION_1_09_1
    /\ {12, 19, 24} \subseteq (call.new_value \cap call.write_mask)
    /\ call.old.mstatus \cap {19, 24} = {}
    /\ {3, 17} \subseteq call.old.mstatus
    /\ env.mstatus # call.old.mstatus

\* C10: a read of sie returns mie & mideleg, and a write to sie sets the mie
\* bits that mideleg selects to the written value and leaves every other
\* mie bit as it was.
C10_SieWindow ==
    (Success /\ call.csrno = CSR_SIE) =>
      /\ call.val = call.old.mie \cap call.old.mideleg
      /\ env.mie = Merge(call.old.mie,
                         call.write_mask \cap call.old.mideleg,
                         call.new_value)

\* A write to sie with STIP delegated and MSIP enabled in mie: STIP is
\* enabled, and MSIP, selected by the mask, stays enabled.
C10_Witness ==
    /\ Success
    /\ call.csrno = CSR_SIE
    /\ 3 \in call.old.mie
    /\ 3 \in call.write_mask /\ 3 \notin call.new_value
    /\ 1 \in call.old.mideleg /\ 3 \notin call.old.mideleg
    /\ 1 \in call.write_mask
    /\ (1 \in call.old.mie) # (1 \in call.new_value)
    /\ env.mie # call.old.mie
    /\ 3 \in env.mie

\* C11: a write to sip, whatever its value and mask, changes no mip bit that
\* mideleg does not delegate; MSIP and MTIP are as they were after every
\* sip write.
C11_SipWriteFrame ==
    (IsCall /\ call.stage # "crash" /\ call.csrno = CSR_SIP) =>
      /\ env.mip \ call.old.mideleg = call.old.mip \ call.old.mideleg
      /\ env.mip \cap {3, 7} = call.old.mip \cap {3, 7}

\* A sip write from S mode that selects SSIP and MSIP to be cleared, with
\* both pending and SSIP delegated: SSIP is cleared, MSIP stays pending.
C11_Witness ==
    /\ Success
    /\ call.csrno = CSR_SIP
    /\ call.old.priv = PRV_S
    /\ {1, 3} \subseteq call.write_mask
    /\ call.new_value \cap {1, 3} = {}
    /\ {1, 3} \subseteq call.old.mip
    /\ 1 \in call.old.mideleg
    /\ env.mip \cap {1, 3} = {3}

\* The privilege mode held by bits 12:11 of a word.
MppOf(w) == Field(w, 11, 12)

\* C12: after any sequence of CSR operations starting from reset, the reset
\* state included, mstatus.MPP is never H, never S on a hart without S, and
\* never U on a hart without U.
C12_MppSupported ==
    SupportedMode(env, MppOf(env.mstatus))

\* The part of C12 that holds of write_mstatus: no CSR instruction changes
\* MPP to a mode the hart does not implement.
C12_MppStep ==
    IsCall =>
      \/ MppOf(env.mstatus) = MppOf(call.old.mstatus)
      \/ SupportedMode(env, MppOf(env.mstatus))

\* C13: after any sequence of CSR operations starting from reset, mideleg
\* has no bit outside {SSIP, STIP, SEIP}, medeleg none outside the delegable
\* exceptions, and mie none outside {SSIP, STIP, SEIP, MSIP, MTIP}, also when
\* mie is written through sie.
C13_DelegationMasks ==
    /\ env.mideleg \subseteq {1, 5, 9}
    /\ env.medeleg \subseteq ((0 .. 13) \cup {15})
    /\ env.mie \subseteq {1, 3, 5, 7, 9}

\* A write of mideleg that selects every interrupt bit and two bits that
\* are none: the three delegable ones are stored.
C13_Witness ==
    /\ Success
    /\ call.csrno = CSR_MIDELEG
    /\ {0, 3, 7, 11} \subseteq (call.new_value \cap call.write_mask)
    /\ env.mideleg = {1, 5, 9}

\* C14: after any sequence of CSR operations starting from reset,
\* mstatus.FS is Off or Dirty and mstatus.SD equals (FS = Dirty or
\* XS = Dirty), after writes through mstatus and sstatus and after the
\* writes to fflags, frm and fcsr that dirty FS.
C14_FsSd ==
    LET fs == env.mstatus \cap {13, 14}
        xs == env.mstatus \cap {15, 16}
    IN  /\ fs \in {{}, {13, 14}}
        /\ ((target - 1) \in env.mstatus) <=> (fs = {13, 14} \/ xs = {15, 16})

\* A write to fcsr that went through: FS is Dirty and SD is set.
C14_Witness ==
    /\ Success
    /\ call.csrno = CSR_FCSR
    /\ call.write_mask # {}
    /\ call.fns = <<"read_fcsr", "write_fcsr">>
    /\ env.mstatus \cap {13, 14} = {13, 14}
    /\ (target - 1) \in env.mstatus

\* The value riscv_csrrw hands the writer: the old value with the selected
\* bits replaced.
Written(old_value) == Merge(old_value, call.write_mask, call.new_value)

\* C15: in every reachable state the low two bits of mtvec and of stvec are
\* zero, and a write to either whose value has a non-zero low two bits
\* returns success and leaves the register as it was.
C15_TvecAligned ==
    /\ env.mtvec \cap {0, 1} = {}
    /\ env.stvec \cap {0, 1} = {}
    /\ (/\ IsCall /\ call.stage \notin {"gate", "crash"}
        /\ call.csrno = CSR_MTVEC /\ call.write_mask # {}
        /\ Written(call.old.mtvec) \cap {0, 1} # {})
       => (Success /\ env.mtvec = call.old.mtvec)
    /\ (/\ IsCall /\ call.stage \notin {"gate", "crash"}
        /\ call.csrno = CSR_STVEC /\ call.write_mask # {}
        /\ Written(call.old.stvec) \cap {0, 1} # {})
       => (Success /\ env.stvec = call.old.stvec)

\* A write to stvec from S mode with bit 0 set in the value, while stvec
\* holds an address: success, and stvec holds the same address.
C15_Witness ==
    /\ Success
    /\ call.csrno = CSR_STVEC
    /\ call.old.priv = PRV_S
    /\ call.write_mask = Ones
    /\ 0 \in call.new_value
    /\ call.old.stvec # {}
    /\ env.stvec = call.old.stvec

\* The fields of mstatus and the translation registers that address
\* translation depends on.
TranslationBits(e) ==
    {11, 12, 17, 18, 19}
    \cup (IF e.priv_ver = PRIV_VERSION_1_09_1 THEN 24 .. 28 ELSE {})

TranslationChanged ==
    \/ (env.mstatus \cap TranslationBits(env))
         # (call.old.mstatus \cap TranslationBits(env))
    \/ env.satp # call.old.satp
    \/ env.sptbr # call.old.sptbr

Flushes == {i \in 1 .. Len(call.ev) : call.ev[i] = "tlb_flush"}

Stores ==
    {i \in 1 .. Len(call.ev) :
       call.ev[i] \in {"store_mstatus", "store_satp", "store_sptbr"}}

\* C16: whenever a write to mstatus, sstatus, satp or sptbr changes a field
\* that translation depends on, a TLB flush is issued during that write,
\* before the new value of the register is stored; one write issues at most
\* one flush.
C16_FlushBeforeStore ==
    (IsCall /\ call.csrno \in {CSR_MSTATUS, CSR_SSTATUS, CSR_SATP}) =>
      /\ Cardinality(Flushes) <= 1
      /\ TranslationChanged =>
            /\ Flushes # {}
            /\ \A i \in Flushes, j \in Stores : i < j

\* Under 1.10 in M mode, mstatus written with MPP = 3 and MPRV = 1 from
\* reset: both are stored, after one flush.
C16_Witness ==
    /\ Success
    /\ call.csrno = CSR_MSTATUS
    /\ call.old.priv_ver = PRIV_VERSION_1_10_0
    /\ call.old.priv = PRV_M
    /\ call.old.mstatus \cap {11, 12, 17} = {}
    /\ env.mstatus \cap {11, 12, 17} = {11, 12, 17}
    /\ call.ev = <<"tlb_flush", "store_mstatus">>

SatpModeOf(w) == IF target = 32 THEN Field(w, 31, 31) ELSE Field(w, 60, 63)

\* C17: under 1.10 with an MMU, a write to satp whose MODE field the hart
\* does not support leaves satp unchanged, issues no TLB flush and returns
\* success; a later read returns the last valid value.
C17_SatpInvalidMode ==
    (/\ IsCall
     /\ call.csrno = CSR_SATP
     /\ call.stage # "crash"
     /\ call.old.priv >= PrivOf(CSR_SATP)
     /\ call.write_mask # {}
     /\ call.old.priv_ver = PRIV_VERSION_1_10_0
     /\ riscv_feature(call.old, RISCV_FEATURE_MMU)
     /\ ~SupportedVm(call.old, SatpModeOf(Written(call.old.satp))))
    => /\ Success
       /\ env = call.old
       /\ call.ev = <<>>
       /\ ReadBack.ret = 0
       /\ ReadBack.val = call.old.satp

\* A write of MODE = 7 over a satp that holds an Sv39 root.
C17_Witness ==
    /\ Success
    /\ call.csrno = CSR_SATP
    /\ call.write_mask # {}
    /\ call.old.priv_ver = PRIV_VERSION_1_10_0
    /\ riscv_feature(call.old, RISCV_FEATURE_MMU)
    /\ ~SupportedVm(call.old, SatpModeOf(Written(call.old.satp)))
    /\ 63 \in call.old.satp
    /\ env.satp = call.old.satp

FpCsrs == {CSR_FFLAGS, CSR_FRM, CSR_FCSR}

\* C18: a read or a write of fflags, frm or fcsr while mstatus.FS is Off is
\* an illegal access and changes nothing; a successful write to one of them
\* leaves mstatus.FS Dirty.
C18_FpAccess ==
    (IsCall /\ call.stage # "crash" /\ call.csrno \in FpCsrs) =>
      /\ (call.old.mstatus \cap MSTATUS_FS = {}) =>
            (Illegal /\ env = call.old)
      /\ (Success /\ call.write_mask # {}) =>
            (env.mstatus \cap MSTATUS_FS = MSTATUS_FS)

\* After FS was turned on through mstatus, a write to frm that changes the
\* rounding mode succeeds and FS is Dirty.
C18_Witness ==
    /\ Success
    /\ call.csrno = CSR_FRM
    /\ call.write_mask # {}
    /\ env.frm # call.old.frm
    /\ env.mstatus \cap MSTATUS_FS = MSTATUS_FS

\* C19: under 1.9.1 every access to mcounteren or scounteren is illegal,
\* under 1.10 every access to mucounteren or mscounteren is illegal, and in
\* both cases the state of the counter enables is left as it was.
C19_VersionGate ==
    (/\ IsCall
     /\ call.stage # "crash"
     /\ \/ /\ call.old.priv_ver = PRIV_VERSION_1_09_1
           /\ call.csrno \in {CSR_MCOUNTEREN, CSR_SCOUNTEREN}
        \/ /\ call.old.priv_ver = PRIV_VERSION_1_10_0
           /\ call.csrno \in {CSR_MUCOUNTEREN, CSR_MSCOUNTEREN})
    => (Illegal /\ env = call.old)

\* Under 1.10 in M mode a write to mucounteren passes the gate and is
\* refused by the register's reader.
C19_Witness ==
    /\ Illegal
    /\ call.csrno = CSR_MUCOUNTEREN
    /\ call.old.priv_ver = PRIV_VERSION_1_10_0
    /\ call.old.priv = PRV_M
    /\ call.write_mask # {}
    /\ call.fns = <<"read_mucounteren">>
    /\ env = call.old

\* The mask rmw_mip is left with for the call the hart thread is in.
EffectiveMask ==
    (sync.hart.write_mask
       \cap (IF sync.hart.csrno = CSR_SIP THEN env.mideleg ELSE Ones))
    \cap {1, 5}

\* C20: while device threads inject interrupts under the iothread mutex, a
\* write of the hart to mip or sip with a non-zero effective mask does its
\* read-modify-write of mip while the hart thread holds the mutex; whenever
\* the mutex is free the interrupt line of the hart agrees with mip, so no
\* update of either side is lost; the hart thread does not hold the mutex
\* once the accessor is through; an access with effective mask zero never
\* holds it.
C20_MutexRmw ==
    /\ HartAt("riscv_set_local_interrupt") => sync.owner = "hart"
    /\ (sync.hart.pc > 0 /\ EffectiveMask # {}) =>
          sync.hart.ev = <<"qemu_mutex_lock_iothread",
                           "riscv_set_local_interrupt",
                           "qemu_mutex_unlock_iothread">>
    /\ sync.device.pc # "idle" => sync.owner = "device"
    /\ sync.owner = "none" => (sync.irq <=> env.mip # {})
    /\ (sync.hart.pc = 0 \/ sync.hart.pc > Len(sync.hart.ev)) =>
          sync.owner # "hart"
    /\ (sync.hart.pc > 0 /\ EffectiveMask = {}) =>
          /\ sync.owner # "hart"
          /\ sync.hart.ev = <<"atomic_read">>

\* The hart thread holds the mutex between its update of mip through sip
\* and the delivery, with a line a device thread raised before still
\* pending.
C20_Witness ==
    /\ sync.owner = "hart"
    /\ sync.hart.csrno = CSR_SIP
    /\ HartAt("riscv_set_local_interrupt")
    /\ sync.hart.updated
    /\ sync.hart.old_mip # env.mip
    /\ env.mip \cap MIP_MSIP # {}
    /\ sync.device.pc = "idle"

\* What the read accessor of the call returned on the state the call
\* started from.
ReadOf == CallRead(csr_ops(call.csrno).read, call.old, call.csrno, call.ticks)

\* C21: for a CSR without a read-modify-write accessor riscv_csrrw calls the
\* read accessor first and returns its error, writing nothing, when it
\* fails; it then calls the write accessor only if the write mask is not
\* zero and a write accessor exists, with (old & ~mask) | (new & mask), and
\* returns the value read before the write.  For a CSR with a
\* read-modify-write accessor neither the read nor the write accessor is
\* called.
C21_ReadModifyWrite ==
    (/\ IsCall
     /\ call.stage \notin {"gate", "crash"}
     /\ call.csrno \in 0 .. (csr_ops_size - 1))
    => LET ops == csr_ops(call.csrno)
       IN  /\ ops.op # NULL => call.fns = <<ops.op>>
           /\ (ops.op = NULL /\ ops.read # NULL) =>
                 IF ReadOf.ret < 0
                 THEN /\ call.fns = <<ops.read>>
                      /\ call.ret = ReadOf.ret
                      /\ env = call.old
                 ELSE IF call.write_mask # {} /\ ops.write # NULL
                 THEN LET wr == CallWrite(ops.write, call.old, call.csrno,
                                          Written(ReadOf.val))
                      IN  /\ call.fns = <<ops.read, ops.write>>
                          /\ env = wr.env
                          /\ call.ret = wr.ret
                          /\ Success => call.val = ReadOf.val
                 ELSE /\ call.fns = <<ops.read>>
                      /\ Success
                      /\ call.val = ReadOf.val
                      /\ env = call.old
           /\ (Success /\ call.csrno = CSR_MSCRATCH) =>
                 /\ call.val = call.old.mscratch
                 /\ call.write_mask # {} =>
                       env.mscratch = Written(call.old.mscratch)

\* A csrrc on mscratch that clears some of the bits it holds: the merged
\* value is neither the old value nor the operand.
C21_Witness ==
    /\ Success
    /\ call.csrno = CSR_MSCRATCH
    /\ call.write_mask \notin {{}, Ones}
    /\ call.fns = <<"read_mscratch", "write_mscratch">>
    /\ call.val = call.old.mscratch
    /\ env.mscratch # call.old.mscratch
    /\ env.mscratch = Written(call.old.mscratch)

\* The fields of mstatus a write stores as written, FS apart.
MstatusPlain ==
    MSTATUS_SIE \cup MSTATUS_SPIE \cup MSTATUS_MIE \cup MSTATUS_MPIE
    \cup MSTATUS_SPP \cup MSTATUS_MPRV \cup MSTATUS_SUM \cup MSTATUS_MXR

UnsupportedMppWrite ==
    /\ IsCall
    /\ call.stage \notin {"gate", "crash"}
    /\ call.csrno = CSR_MSTATUS
    /\ call.write_mask # {}
    /\ ~SupportedMode(call.old, MppOf(Written(call.old.mstatus)))

\* C22 as stated: a write to mstatus whose MPP selects an unsupported mode
\* returns success, leaves MPP as it was and stores the written value in
\* each of SIE, SPIE, MIE, MPIE, SPP, FS, MPRV, SUM and MXR.
C22_MppDropped ==
    UnsupportedMppWrite =>
      /\ Success
      /\ MppOf(env.mstatus) = MppOf(call.old.mstatus)
      /\ env.mstatus \cap (MstatusPlain \cup MSTATUS_FS)
           = Written(call.old.mstatus) \cap (MstatusPlain \cup MSTATUS_FS)

\* C22 amended: as stated for MPP and for SIE, SPIE, MIE, MPIE, SPP, MPRV,
\* SUM and MXR; FS is left Off when the written FS is Off and Dirty
\* otherwise.
C22_MppDroppedFsDirty ==
    UnsupportedMppWrite =>
      /\ Success
      /\ MppOf(env.mstatus) = MppOf(call.old.mstatus)
      /\ env.mstatus \cap MstatusPlain
           = Written(call.old.mstatus) \cap MstatusPlain
      /\ env.mstatus \cap MSTATUS_FS
           = (IF Written(call.old.mstatus) \cap MSTATUS_FS = {} THEN {}
              ELSE MSTATUS_FS)

\* With MPP = M held, a write of MPP = H and FS = Clean: MPP stays M, the
\* other fields change and FS is Dirty.
C22_Witness ==
    /\ UnsupportedMppWrite
    /\ MppOf(call.old.mstatus) = 3
    /\ MppOf(Written(call.old.mstatus)) = 2
    /\ MppOf(env.mstatus) = 3
    /\ Written(call.old.mstatus) \cap MSTATUS_FS = {14}
    /\ env.mstatus \cap MSTATUS_FS = MSTATUS_FS
    /\ env.mstatus \cap MstatusPlain # call.old.mstatus \cap MstatusPlain

\* fcsr as the two fields make it: fflags in bits [4:0], frm in bits [7:5].
Fcsr(e) == e.fflags \cup {b + 5 : b \in e.frm}

\* C23: with FS not Off a read of fcsr equals fflags | (frm << 5); a write of
\* v to fcsr sets fflags to v[4:0] and frm to v[7:5] and discards the bits
\* above; a write to fflags leaves frm as it was and a write to frm leaves
\* fflags as it was.
C23_FcsrComposite ==
    /\ env.fflags \subseteq 0 .. 4
    /\ env.frm \subseteq 0 .. 2
    /\ (Success /\ call.csrno = CSR_FCSR) =>
          /\ call.val = Fcsr(call.old)
          /\ call.write_mask # {} =>
                LET v == Written(Fcsr(call.old))
                IN  /\ env.fflags = v \cap (0 .. 4)
                    /\ env.frm = {b - 5 : b \in v \cap (5 .. 7)}
    /\ (Success /\ call.csrno = CSR_FFLAGS /\ call.write_mask # {}) =>
          /\ env.frm = call.old.frm
          /\ env.fflags = Written(call.old.fflags) \cap (0 .. 4)
    /\ (Success /\ call.csrno = CSR_FRM /\ call.write_mask # {}) =>
          /\ env.fflags = call.old.fflags
          /\ env.frm = Written(call.old.frm) \cap (0 .. 2)

\* A write to fcsr of a value with bits above bit 7 that leaves fflags and
\* frm different from each other and from what they were.
C23_Witness ==
    /\ Success
    /\ call.csrno = CSR_FCSR
    /\ call.write_mask # {}
    /\ Written(Fcsr(call.old)) \cap (8 .. 63) # {}
    /\ env.fflags # env.frm
    /\ env.fflags # call.old.fflags
    /\ env.frm # call.old.frm
    /\ env.frm # {}

\* C24: no CSR instruction, on mip, on sip or on any other register, with
\* any mask and value and from any privilege mode, changes mip.SEIP; SEIP
\* changes only in a step of the interrupt controller.
C24_SeipHardware ==
    [][(env'.mip \cap MIP_SEIP # env.mip \cap MIP_SEIP) =>
         /\ call'.kind = "none"
         /\ env' \in {riscv_set_local_interrupt(env, MIP_SEIP, v).env :
                         v \in {{}, MIP_SEIP}}]_vars

\* With SEIP raised by the controller, a csrrc on mip that selects STIP and
\* SEIP clears STIP and leaves SEIP pending.
C24_Witness ==
    /\ Success
    /\ call.csrno = CSR_MIP
    /\ call.write_mask = {5, 9}
    /\ call.new_value \cap {5, 9} = {}
    /\ call.old.mip \cap {5, 9} = {5, 9}
    /\ env.mip \cap {5, 9} = {9}

\* C25: no CSR instruction changes priv_ver, misa, mhartid or the privilege
\* mode of the hart; a write to misa, with any value and any non-zero mask,
\* returns success and leaves misa and the rest of the hart state as they
\* were.
C25_FixedState ==
    [][(call'.kind = "csrrw" /\ call'.stage # "crash") =>
         /\ env'.priv_ver = env.priv_ver
         /\ env'.misa = env.misa
         /\ env'.mhartid = env.mhartid
         /\ env'.priv = env.priv
         /\ (/\ call'.csrno = CSR_MISA
             /\ call'.write_mask # {}
             /\ env.priv = PRV_M)
            => (call'.ret = 0 /\ env' = env)]_vars

\* A csrrw on misa in M mode of a value that is not misa.
C25_Witness ==
    /\ Success
    /\ call.csrno = CSR_MISA
    /\ call.write_mask = Ones
    /\ call.new_value # call.old.misa
    /\ call.fns = <<"read_misa">>
    /\ call.val = call.old.misa
    /\ env = call.old

\* A CSR instruction on satp/sptbr that got past the gate.
SatpCall ==
    /\ IsCall
    /\ call.csrno = CSR_SATP
    /\ call.stage \notin {"gate", "crash"}

\* C26: under 1.9.1 with an MMU sptbr never holds a bit at or above
\* position TARGET_PHYS_ADDR_SPACE_BITS - PGSHIFT (22 on RV32, 38 on RV64);
\* a write whose value differs from sptbr flushes the TLB and then stores,
\* and a read then returns the written value cut to that width.  On a hart
\* without an MMU a read of satp/sptbr returns zero and a write changes
\* nothing and flushes nothing.
C26_Sptbr ==
    LET width == IF target = 32 THEN 22 ELSE 38
        v == Written(call.old.sptbr)
    IN  /\ env.sptbr \cap (width .. (target - 1)) = {}
        /\ (/\ SatpCall
            /\ call.old.priv_ver = PRIV_VERSION_1_09_1
            /\ riscv_feature(call.old, RISCV_FEATURE_MMU))
           => /\ Success
              /\ call.val = call.old.sptbr
              /\ (call.write_mask # {} /\ v # call.old.sptbr) =>
                    /\ call.ev = <<"tlb_flush", "store_sptbr">>
                    /\ env.sptbr = v \cap (0 .. (width - 1))
                    /\ ReadBack.val = v \cap (0 .. (width - 1))
              /\ (call.write_mask = {} \/ v = call.old.sptbr) =>
                    (env = call.old /\ call.ev = <<>>)
        /\ (SatpCall /\ ~riscv_feature(call.old, RISCV_FEATURE_MMU))
           => /\ Success
              /\ call.val = {}
              /\ env = call.old
              /\ call.ev = <<>>

\* Under 1.9.1 a write to sptbr of a value with bits above the width: the
\* TLB is flushed, the low bits are stored and the high bits are not.
C26_Witness ==
    /\ SatpCall
    /\ call.old.priv_ver = PRIV_VERSION_1_09_1
    /\ call.write_mask # {}
    /\ Written(call.old.sptbr) \cap (38 .. 63) # {}
    /\ call.ev = <<"tlb_flush", "store_sptbr">>
    /\ env.sptbr # call.old.sptbr
    /\ env.sptbr # {}
    /\ env.sptbr # Written(call.old.sptbr)

PmpcfgAccessors == {"read_pmpcfg", "write_pmpcfg"}

PmpaddrAccessors == {"read_pmpaddr", "write_pmpaddr"}

Called == {call.fns[i] : i \in 1 .. Len(call.fns)}

\* C27: every number in pmpaddr0..pmpaddr15 is served by the pmpaddr
\* accessors, never by the pmpcfg accessors; the pmpcfg accessors are called
\* only for pmpcfg0..pmpcfg3; the numbers between pmpcfg3 and pmpaddr0 are
\* illegal.
C27_PmpDispatch ==
    (IsCall /\ call.stage \notin {"gate", "crash"}) =>
      /\ call.csrno \in CSR_PMPADDR0 .. CSR_PMPADDR15 =>
            /\ Called # {}
            /\ Called \subseteq PmpaddrAccessors
            /\ call.csrno - CSR_PMPADDR0 \in 0 .. (MAX_RISCV_PMPS - 1)
      /\ Called \cap PmpcfgAccessors # {} =>
            call.csrno - CSR_PMPCFG0 \in 0 .. 3
      /\ call.csrno \in (CSR_PMPCFG0 + 4) .. (CSR_PMPADDR0 - 1) => Illegal

\* The part of C27 that holds of the table: pmpaddr0..pmpaddr15 go to the
\* pmpaddr accessors with an index in 0..15, pmpcfg0..pmpcfg3 to the pmpcfg
\* accessors.
C27_PmpaddrDispatch ==
    (IsCall /\ call.stage \notin {"gate", "crash"}) =>
      /\ call.csrno \in CSR_PMPADDR0 .. CSR_PMPADDR15 =>
            /\ Called # {}
            /\ Called \subseteq PmpaddrAccessors
      /\ call.csrno \in CSR_PMPCFG0 .. (CSR_PMPCFG0 + 3) =>
            /\ Called # {}
            /\ Called \subseteq PmpcfgAccessors

====
